---------------------------- MODULE Spec2Model ----------------------------
(***************************************************************************)
(* cp2md: GitHub Copilot chat export (JSON) -> Markdown.                   *)
(*                                                                         *)
(* Model of the decoder (src/src/parser.rs), of the renderer               *)
(* (src/src/renderer.rs): its text transforms and the document it writes,  *)
(* and of the command line (src/src/main.rs): the inputs it collects and   *)
(* the files it writes.                                                    *)
(* Strings are sequences of one-character strings; JSON values are records *)
(* of one uniform shape.                                                   *)
(***************************************************************************)
EXTENDS Integers, Sequences, FiniteSets, TLC

VARIABLES
    pc,        \* position of the run: which operation has been applied
    doc,       \* decoder input: the JSON document handed to parse_chat
    chat,      \* decoder output: Result<ChatExport, ParseError>; renderer input
    text,      \* renderer input: a user message, tool message or Text element
    levels,    \* renderer input: the levels argument of shift_headings
    shifted,   \* shift_headings(text, levels)
    escaped,   \* escape_xml_tags(..)
    out,       \* the output buffer: what has been appended to it so far
    options,   \* renderer input: the RenderOptions
    nrendered, \* render_chat: how many requests the loop has rendered
    overflow_checks, \* the build: an integer overflow panics (TRUE) or wraps (FALSE)
    cli,       \* main: the parsed command line, struct Cli
    files,     \* main: the result of collect_input_files
    processed, \* main, process_concat: how many of the files the loop has handled
    output,    \* process_concat: the buffer of concatenated documents
    disk,      \* the files under the output target: path -> content
    dirs,      \* the directories created under the output target
    stdout,    \* what has been printed to standard output
    stderr     \* the messages written to standard error, in order

libVars ==
    <<doc, chat, text, levels, shifted, escaped, out, options, nrendered, overflow_checks>>

cliVars == <<cli, files, processed, output, disk, dirs, stdout, stderr>>

vars == <<pc, libVars, cliVars>>

(***************************************************************************)
(* Generic helpers on sequences.                                           *)
(***************************************************************************)
SetMax(S) == CHOOSE x \in S : \A y \in S : y <= x

Min2(a, b) == IF a <= b THEN a ELSE b

\* str::repeat
Repeat(c, k) == [i \in 1..k |-> c]

RECURSIVE Concat(_)
Concat(ss) == IF ss = <<>> THEN <<>> ELSE Head(ss) \o Concat(Tail(ss))

\* All sequences over S of length 0..k.
SeqsUpTo(S, k) == UNION {[1..m -> S] : m \in 0..k}

StartsWith(s, p) == Len(s) >= Len(p) /\ SubSeq(s, 1, Len(p)) = p

\* str::contains(&str)
Contains(s, sub) ==
    \E i \in 1..(Len(s) - Len(sub) + 1) : SubSeq(s, i, i + Len(sub) - 1) = sub

(***************************************************************************)
(* serde_json::Value.  One record shape for every JSON value:              *)
(*   t  the JSON type: "null" "bool" "int" "big" "float" "str" "arr" "obj" *)
(*   s  the characters of a string                                         *)
(*   n  a boolean as 0/1; the low 32 bits (or the negative value) of an    *)
(*      integer                                                            *)
(*   h  the bits of an integer above the low 32                            *)
(*   a  the elements of an array                                           *)
(*   o  the members of an object, in document order, as [k, v] records     *)
(* "int" is an integer that fits i64; "big" an integer in i64::MAX+1 ..    *)
(* u64::MAX; "float" any other number.                                     *)
(***************************************************************************)
JV(t, s, n, h, a, o) == [t |-> t, s |-> s, n |-> n, h |-> h, a |-> a, o |-> o]

JNull == JV("null", <<>>, 0, 0, <<>>, <<>>)

JBool(b) == JV("bool", <<>>, IF b THEN 1 ELSE 0, 0, <<>>, <<>>)

JInt(n) == JV("int", <<>>, n, 0, <<>>, <<>>)

JWide(h, n) == JV("int", <<>>, n, h, <<>>, <<>>)

JBig(n) == JV("big", <<>>, n, 0, <<>>, <<>>)

JFloat == JV("float", <<>>, 0, 0, <<>>, <<>>)

JStr(s) == JV("str", s, 0, 0, <<>>, <<>>)

JArr(a) == JV("arr", <<>>, 0, 0, a, <<>>)

JObj(o) == JV("obj", <<>>, 0, 0, <<>>, o)

Mem(k, v) == [k |-> k, v |-> v]

\* Option<&Value>, Option<String>
SomeV(v) == [some |-> TRUE, v |-> v]

NoneV == [some |-> FALSE, v |-> JNull]

SomeS(s) == [some |-> TRUE, v |-> s]

NoneS == [some |-> FALSE, v |-> <<>>]

\* Option::unwrap_or_default / unwrap_or on Option<String>
UnwrapOr(opt, dflt) == IF opt.some THEN opt.v ELSE dflt

\* Option::or_else
OrElse(opt, other) == IF opt.some THEN opt ELSE other

\* serde_json::Value::get(&str): the member of an object with that key; a
\* key given twice in the document keeps its last value (Map::insert).
Get(v, key) ==
    LET idx == {i \in 1..Len(v.o) : v.o[i].k = key}
    IN  IF v.t = "obj" /\ idx # {} THEN SomeV(v.o[SetMax(idx)].v) ELSE NoneV

\* serde_json::Value::as_i64: an integer that fits i64, as (high, low) words
as_i64(v) == v.t = "int"

\* serde_json::Value::as_u64: a non-negative integer
as_u64(v) == v.t = "big" \/ (v.t = "int" /\ v.h >= 0 /\ v.n >= 0)

\* A conversion to u32 that falls back to 1 when the number does not fit.
AsU32_OrOne(v) == IF v.t = "big" \/ v.h # 0 THEN 1 ELSE v.n

\* x as u32, of a u64: the low 32 bits
AsU32(v) == v.n

(***************************************************************************)
(* String literals of the source.                                          *)
(***************************************************************************)
StrFile == <<"f", "i", "l", "e">>

StrPromptFile == <<"p", "r", "o", "m", "p", "t", "F", "i", "l", "e">>

StrFolder == <<"f", "o", "l", "d", "e", "r">>

StrSelection == <<"s", "e", "l", "e", "c", "t", "i", "o", "n">>

StrFilePrefix == <<"f", "i", "l", "e", ":">>

StrPromptPrefix == <<"p", "r", "o", "m", "p", "t", ":">>

StrInlineReference ==
    <<"i", "n", "l", "i", "n", "e", "R", "e", "f", "e", "r", "e", "n", "c", "e">>

StrCodeblockUri == <<"c", "o", "d", "e", "b", "l", "o", "c", "k", "U", "r", "i">>

StrTextEditGroup ==
    <<"t", "e", "x", "t", "E", "d", "i", "t", "G", "r", "o", "u", "p">>

StrToolInvocationSerialized ==
    <<"t", "o", "o", "l", "I", "n", "v", "o", "c", "a", "t", "i", "o", "n",
      "S", "e", "r", "i", "a", "l", "i", "z", "e", "d">>

(***************************************************************************)
(* parser.rs: path navigation.                                             *)
(***************************************************************************)
RECURSIVE Navigate(_, _)
Navigate(value, path) ==
    IF path = <<>> THEN SomeV(value)
    ELSE LET g == Get(value, Head(path))
         IN  IF g.some THEN Navigate(g.v, Tail(path)) ELSE NoneV

get_str(value, path) ==
    LET c == Navigate(value, path)
    IN  IF c.some /\ c.v.t = "str" THEN SomeS(c.v.s) ELSE NoneS

get_string(value, path) == get_str(value, path)

(***************************************************************************)
(* parser.rs: ResponseElement.  One record shape for the six variants:     *)
(* "Text" "InlineReference" "CodeBlockUri" "TextEditGroup"                 *)
(* "ToolInvocation" "Other".                                               *)
(***************************************************************************)
RE(variant, txt, name, path, edits, past_tense) ==
    [variant |-> variant, text |-> txt, name |-> name, path |-> path,
     edits |-> edits, past_tense |-> past_tense]

Other == RE("Other", <<>>, NoneS, <<>>, <<>>, NoneS)

RECURSIVE EditTexts(_)
EditTexts(edits) ==
    IF edits = <<>> THEN <<>>
    ELSE LET t == get_str(Head(edits), <<"text">>)
         IN  (IF t.some THEN <<t.v>> ELSE <<>>) \o EditTexts(Tail(edits))

RECURSIVE FlattenGroups(_)
FlattenGroups(groups) ==
    IF groups = <<>> THEN <<>>
    ELSE (IF Head(groups).t = "arr" THEN Head(groups).a ELSE <<>>)
         \o FlattenGroups(Tail(groups))

extract_edits(value) ==
    LET e == Get(value, "edits")
    IN  IF e.some /\ e.v.t = "arr" THEN EditTexts(FlattenGroups(e.v.a)) ELSE <<>>

\* A variant of KindDispatch in which a kind outside the known tags falls
\* through to the value heuristic.
KindDispatch_ValueFallback(value, kind) ==
    IF kind = StrToolInvocationSerialized
    THEN RE("ToolInvocation", <<>>, NoneS, <<>>, <<>>,
            get_string(value, <<"pastTenseMessage", "value">>))
    ELSE IF kind \in {StrInlineReference, StrCodeblockUri, StrTextEditGroup}
    THEN RE(IF kind = StrInlineReference THEN "InlineReference"
            ELSE IF kind = StrCodeblockUri THEN "CodeBlockUri" ELSE "TextEditGroup",
            <<>>,
            IF kind = StrInlineReference
            THEN OrElse(get_string(value, <<"name">>),
                        get_string(value, <<"inlineReference", "name">>))
            ELSE NoneS,
            IF kind = StrInlineReference
            THEN UnwrapOr(get_str(value, <<"inlineReference", "path">>), <<>>)
            ELSE UnwrapOr(get_str(value, <<"uri", "path">>), <<>>),
            IF kind = StrTextEditGroup THEN extract_edits(value) ELSE <<>>,
            NoneS)
    ELSE IF get_str(value, <<"value">>).some
    THEN RE("Text", get_str(value, <<"value">>).v, NoneS, <<>>, <<>>, NoneS)
    ELSE Other

\* The match on the kind string (parser.rs 190-213).
KindDispatch(value, kind) ==
    CASE kind = StrInlineReference ->
           RE("InlineReference", <<>>,
              OrElse(get_string(value, <<"name">>),
                     get_string(value, <<"inlineReference", "name">>)),
              UnwrapOr(get_str(value, <<"inlineReference", "path">>), <<>>),
              <<>>, NoneS)
      [] kind = StrCodeblockUri ->
           RE("CodeBlockUri", <<>>, NoneS,
              UnwrapOr(get_str(value, <<"uri", "path">>), <<>>), <<>>, NoneS)
      [] kind = StrTextEditGroup ->
           RE("TextEditGroup", <<>>, NoneS,
              UnwrapOr(get_str(value, <<"uri", "path">>), <<>>),
              extract_edits(value), NoneS)
      [] kind = StrToolInvocationSerialized ->
           RE("ToolInvocation", <<>>, NoneS, <<>>, <<>>,
              get_string(value, <<"pastTenseMessage", "value">>))
      [] OTHER -> Other

\* impl Deserialize for ResponseElement: never an error.
ResponseElement_deserialize(value) ==
    LET kind == get_str(value, <<"kind">>)
        txt  == get_str(value, <<"value">>)
    IN  IF kind.some THEN KindDispatch(value, kind.v)
        ELSE IF txt.some THEN RE("Text", txt.v, NoneS, <<>>, <<>>, NoneS)
        ELSE Other

\* serde_json::from_value::<Vec<ResponseElement>>(r).ok().unwrap_or_default()
RECURSIVE ResponseElements(_)
ResponseElements(elems) ==
    IF elems = <<>> THEN <<>>
    ELSE <<ResponseElement_deserialize(Head(elems))>> \o ResponseElements(Tail(elems))

ResponseOf(r) == IF r.t = "arr" THEN ResponseElements(r.a) ELSE <<>>

(***************************************************************************)
(* parser.rs: ContextItem and extract_context.  Variants "File"            *)
(* "Selection" "Folder" "Instructions"; the line numbers are 0 in the      *)
(* variants that have none.                                                *)
(***************************************************************************)
CI(variant, name, path, start_line, end_line) ==
    [variant |-> variant, name |-> name, path |-> path,
     start_line |-> start_line, end_line |-> end_line]

clean_context_name(name) ==
    IF StartsWith(name, StrFilePrefix)
    THEN SubSeq(name, Len(StrFilePrefix) + 1, Len(name))
    ELSE IF StartsWith(name, StrPromptPrefix)
    THEN SubSeq(name, Len(StrPromptPrefix) + 1, Len(name))
    ELSE name

\* range.get("startLineNumber").and_then(as_u64).unwrap_or(1) as u32
StartLine(range) ==
    LET g == Get(range, "startLineNumber")
    IN  IF g.some /\ as_u64(g.v) THEN AsU32(g.v) ELSE 1

\* range.get("endLineNumber").and_then(as_u64).unwrap_or_else(start_line) as u32
EndLine(range, start_line) ==
    LET g == Get(range, "endLineNumber")
    IN  IF g.some /\ as_u64(g.v) THEN AsU32(g.v) ELSE start_line

\* A variant of IsSelection that takes every variable with a range.
IsSelection_AnyRange(id, start_line, end_line) == TRUE

\* The test of parser.rs 304.
IsSelection(id, start_line, end_line) ==
    Contains(id, StrSelection) \/ start_line # end_line \/ start_line > 1

\* The "file" arm of the match.
FileItem(var, name, id) ==
    LET path  == UnwrapOr(OrElse(get_string(var, <<"value", "uri", "path">>),
                                 get_string(var, <<"value", "path">>)), <<>>)
        range == Navigate(var, <<"value", "range">>)
        start_line == StartLine(range.v)
        end_line   == EndLine(range.v, start_line)
    IN  IF range.some /\ IsSelection(id, start_line, end_line)
        THEN CI("Selection", clean_context_name(name), path, start_line, end_line)
        ELSE CI("File", clean_context_name(name), path, 0, 0)

\* A variant of ContextItemsOf that keeps the variables of kind "tool".
ContextItemsOf_KeepsTool(var) ==
    LET kind == UnwrapOr(get_str(var, <<"kind">>), <<>>)
        name == UnwrapOr(get_string(var, <<"name">>), <<>>)
        id   == UnwrapOr(get_string(var, <<"id">>), <<>>)
    IN  CASE kind = StrFile -> <<FileItem(var, name, id)>>
          [] kind \in {StrPromptFile, <<"t", "o", "o", "l">>} ->
               <<CI("Instructions", clean_context_name(name), <<>>, 0, 0)>>
          [] kind = StrFolder ->
               <<CI("Folder", clean_context_name(name),
                    UnwrapOr(get_string(var, <<"value", "path">>), <<>>), 0, 0)>>
          [] OTHER -> <<>>

\* One iteration of the loop over the variables: the items it pushes.
ContextItemsOf(var) ==
    LET kind == UnwrapOr(get_str(var, <<"kind">>), <<>>)
        name == UnwrapOr(get_string(var, <<"name">>), <<>>)
        id   == UnwrapOr(get_string(var, <<"id">>), <<>>)
    IN  CASE kind = StrFile -> <<FileItem(var, name, id)>>
          [] kind = StrPromptFile ->
               <<CI("Instructions", clean_context_name(name), <<>>, 0, 0)>>
          [] kind = StrFolder ->
               <<CI("Folder", clean_context_name(name),
                    UnwrapOr(get_string(var, <<"value", "path">>), <<>>), 0, 0)>>
          [] OTHER -> <<>>

RECURSIVE ContextLoop(_)
ContextLoop(variables) ==
    IF variables = <<>> THEN <<>>
    ELSE ContextItemsOf(Head(variables)) \o ContextLoop(Tail(variables))

extract_context(value) ==
    LET variables == Navigate(value, <<"variableData", "variables">>)
    IN  IF variables.some /\ variables.v.t = "arr"
        THEN ContextLoop(variables.v.a)
        ELSE <<>>

(***************************************************************************)
(* parser.rs: Message, Request, ChatExport, parse_chat.                    *)
(***************************************************************************)
\* #[derive(Deserialize)] struct Message, from a Value: a struct is read from
\* an object (visit_map; unknown keys ignored) or from an array of exactly its
\* fields in order (visit_seq).  [ok, text].
Message_deserialize(m) ==
    CASE m.t = "obj" ->
           LET t == Get(m, "text")
           IN  IF t.some /\ t.v.t = "str" THEN [ok |-> TRUE, text |-> t.v.s]
               ELSE [ok |-> FALSE, text |-> <<>>]
      [] m.t = "arr" ->
           IF Len(m.a) = 1 /\ m.a[1].t = "str"
           THEN [ok |-> TRUE, text |-> m.a[1].s]
           ELSE [ok |-> FALSE, text |-> <<>>]
      [] OTHER -> [ok |-> FALSE, text |-> <<>>]

ZeroTimestamp == [h |-> 0, n |-> 0]

\* impl Deserialize for Request: never an error.
Request_deserialize(value) ==
    LET ts  == Get(value, "timestamp")
        msg == Get(value, "message")
        rsp == Get(value, "response")
    IN  [timestamp  |-> IF ts.some /\ as_i64(ts.v)
                        THEN [h |-> ts.v.h, n |-> ts.v.n] ELSE ZeroTimestamp,
         model_id   |-> get_string(value, <<"modelId">>),
         agent_name |-> get_string(value, <<"agent", "name">>),
         context    |-> extract_context(value),
         message    |-> [text |-> IF msg.some /\ Message_deserialize(msg.v).ok
                                  THEN Message_deserialize(msg.v).text ELSE <<>>],
         response   |-> IF rsp.some THEN ResponseOf(rsp.v) ELSE <<>>]

RECURSIVE Requests(_)
Requests(elems) ==
    IF elems = <<>> THEN <<>>
    ELSE <<Request_deserialize(Head(elems))>> \o Requests(Tail(elems))

\* Result<ChatExport, ParseError>
Ok(responder_username, requests) ==
    [ok |-> TRUE, responder_username |-> responder_username, requests |-> requests]

Err == [ok |-> FALSE, responder_username |-> <<>>, requests |-> <<>>]

\* #[derive(Deserialize)] struct ChatExport, visit_map: the members in document
\* order; a field given twice is an error (duplicate_field), a field of the
\* wrong type is an error, another key is skipped, a field never seen is an
\* error (missing_field).
RECURSIVE ChatExport_visit_map(_, _, _)
ChatExport_visit_map(members, ru, rq) ==
    IF members = <<>>
    THEN IF ru.some /\ rq.some THEN Ok(ru.v, rq.v) ELSE Err
    ELSE LET m == Head(members)
         IN  CASE m.k = "responderUsername" ->
                    IF ru.some \/ m.v.t # "str" THEN Err
                    ELSE ChatExport_visit_map(Tail(members), SomeS(m.v.s), rq)
               [] m.k = "requests" ->
                    IF rq.some \/ m.v.t # "arr" THEN Err
                    ELSE ChatExport_visit_map(Tail(members), ru, SomeS(Requests(m.v.a)))
               [] OTHER -> ChatExport_visit_map(Tail(members), ru, rq)

\* #[derive(Deserialize)] struct ChatExport, visit_seq: an array of exactly the
\* two fields in declaration order.
ChatExport_visit_seq(elems) ==
    IF Len(elems) = 2 /\ elems[1].t = "str" /\ elems[2].t = "arr"
    THEN Ok(elems[1].s, Requests(elems[2].a))
    ELSE Err

ChatExport_deserialize(root) ==
    CASE root.t = "obj" -> ChatExport_visit_map(root.o, NoneS, NoneS)
      [] root.t = "arr" -> ChatExport_visit_seq(root.a)
      [] OTHER -> Err

\* serde_json::from_str(json_str).context(JsonSnafu); a document is
\* [valid, root]: whether the text is syntactically valid JSON, and its value.
parse_chat(d) == IF d.valid THEN ChatExport_deserialize(d.root) ELSE Err

(***************************************************************************)
(* renderer.rs: the text transforms.                                       *)
(***************************************************************************)
NL == "\n"

CR == "\r"

\* char::is_whitespace, on the characters the model uses
Whitespace == {" ", "\t", CR, NL}

\* char::is_ascii_alphabetic
AsciiAlphabetic ==
    {"a", "b", "c", "d", "e", "f", "g", "h", "i", "j", "k", "l", "m",
     "n", "o", "p", "q", "r", "s", "t", "u", "v", "w", "x", "y", "z",
     "A", "B", "C", "D", "E", "F", "G", "H", "I", "J", "K", "L", "M",
     "N", "O", "P", "Q", "R", "S", "T", "U", "V", "W", "X", "Y", "Z"}

\* The backquote character (a backquote cannot be written in a string here).
Backtick == "BACKTICK"

Backticks3 == <<Backtick, Backtick, Backtick>>

Tildes3 == <<"~", "~", "~">>

\* str::split(c): the pieces between the occurrences of c (at least one piece)
RECURSIVE SplitOn(_, _)
SplitOn(s, c) ==
    LET at == {i \in 1..Len(s) : s[i] = c}
    IN  IF at = {} THEN <<s>>
        ELSE LET i == CHOOSE j \in at : \A k \in at : j <= k
             IN  <<SubSeq(s, 1, i - 1)>> \o SplitOn(SubSeq(s, i + 1, Len(s)), c)

\* [String]::join(sep)
RECURSIVE Join(_, _)
Join(ls, sep) ==
    IF ls = <<>> THEN <<>>
    ELSE IF Len(ls) = 1 THEN ls[1]
    ELSE ls[1] \o sep \o Join(Tail(ls), sep)

\* str::lines(): the text is cut after each "\n"; a piece ended by "\n" loses
\* it and then one "\r" before it; the unterminated last piece is kept as it
\* is, and there is no last piece when the text is empty or ends in "\n".
lines(s) ==
    LET pieces == SplitOn(s, NL)
        n      == Len(pieces)
        strip(p) == IF Len(p) > 0 /\ p[Len(p)] = CR THEN SubSeq(p, 1, Len(p) - 1) ELSE p
        ended  == [i \in 1..(n - 1) |-> strip(pieces[i])]
    IN  IF pieces[n] = <<>> THEN ended ELSE ended \o <<pieces[n]>>

\* str::trim_start()
RECURSIVE trim_start(_)
trim_start(s) ==
    IF s # <<>> /\ Head(s) \in Whitespace THEN trim_start(Tail(s)) ELSE s

\* line.chars().take_while(|&c| c == '#').count()
RECURSIVE HashCount(_)
HashCount(line) ==
    IF line # <<>> /\ Head(line) = "#" THEN 1 + HashCount(Tail(line)) ELSE 0

\* trimmed starts with three backquotes or three tildes   (renderer.rs 352)
IsFenceLine(line) ==
    StartsWith(trim_start(line), Backticks3) \/ StartsWith(trim_start(line), Tildes3)

\* Valid ATX heading: 1-6 hashes followed by a space   (renderer.rs 359-362)
IsHeadingLine(line) ==
    /\ StartsWith(line, <<"#">>)
    /\ HashCount(line) <= 6
    /\ HashCount(line) < Len(line)
    /\ line[HashCount(line) + 1] = " "

NewLevel_NoCap(hash_count, lv) == hash_count + lv

\* (hash_count + levels as usize).min(6)   (renderer.rs 363)
NewLevel(hash_count, lv) == Min2(hash_count + lv, 6)

\* The loop body of shift_headings, over the remaining lines.
RECURSIVE ShiftLoop(_, _, _)
ShiftLoop(ls, lv, in_code_block) ==
    IF ls = <<>> THEN <<>>
    ELSE LET line == Head(ls)
             hash_count == HashCount(line)
         IN  IF IsFenceLine(line)
             THEN <<line>> \o ShiftLoop(Tail(ls), lv, ~in_code_block)
             ELSE IF ~in_code_block /\ IsHeadingLine(line)
             THEN <<Repeat("#", NewLevel(hash_count, lv))
                    \o SubSeq(line, hash_count + 1, Len(line))>>
                  \o ShiftLoop(Tail(ls), lv, in_code_block)
             ELSE <<line>> \o ShiftLoop(Tail(ls), lv, in_code_block)

shift_headings(s, lv) ==
    IF lv = 0 THEN s ELSE Join(ShiftLoop(lines(s), lv, FALSE), <<NL>>)

EntityLt_Backslash == <<"\\", "<">>

\* result.push_str("&lt;")   (renderer.rs 392)
EntityLt == <<"&", "l", "t", ";">>

EntityGt == <<"&", "g", "t", ";">>

IsTagStart_NoSlash(c) == c \in AsciiAlphabetic \/ c = "!"

\* next.is_ascii_alphabetic() || next == '/' || next == '!'   (renderer.rs 389)
IsTagStart(c) == c \in AsciiAlphabetic \/ c = "/" \/ c = "!"

ClosesTag_Always(c, in_tag) == c = ">"

\* c == '>' && in_tag   (renderer.rs 397)
ClosesTag(c, in_tag) == c = ">" /\ in_tag

\* The loop of escape_xml_tags from character i on; chars.peek() is s[i + 1].
RECURSIVE EscapeLoop(_, _, _)
EscapeLoop(s, i, in_tag) ==
    IF i > Len(s) THEN <<>>
    ELSE LET c == s[i]
         IN  IF c = "<"
             THEN IF i < Len(s) /\ IsTagStart(s[i + 1])
                  THEN EntityLt \o EscapeLoop(s, i + 1, TRUE)
                  ELSE <<c>> \o EscapeLoop(s, i + 1, in_tag)
             ELSE IF ClosesTag(c, in_tag)
             THEN EntityGt \o EscapeLoop(s, i + 1, FALSE)
             ELSE <<c>> \o EscapeLoop(s, i + 1, in_tag)

escape_xml_tags(s) == EscapeLoop(s, 1, FALSE)

(***************************************************************************)
(* Decoder inputs: JSON documents built from small sets of values.         *)
(***************************************************************************)
MaxElems == 2

MaxVars == 2

MaxRootMembers == 3

MaxRequests == 2

S_hi == <<"h", "i">>

S_yo == <<"y", "o">>

S_path == <<"/", "s", "/", "m", ".", "r", "s">>

S_unknownKind == <<"u", "n", "k", "n", "o", "w", "n">>

S_tool == <<"t", "o", "o", "l">>

S_selId == <<"v", "."  >> \o StrSelection

Kind(k) == Mem("kind", JStr(k))

\* Values that appear as elements of a response array.
ElemValues ==
    { JObj(<<Mem("value", JStr(S_hi))>>),
      JObj(<<Mem("value", JStr(S_yo))>>),
      JObj(<<Mem("value", JInt(5))>>),
      JObj(<<>>),
      JObj(<<Kind(StrInlineReference), Mem("name", JStr(S_hi)),
             Mem("inlineReference", JObj(<<Mem("path", JStr(S_path))>>))>>),
      JObj(<<Kind(StrInlineReference),
             Mem("inlineReference", JObj(<<Mem("name", JStr(S_yo))>>))>>),
      JObj(<<Kind(StrCodeblockUri), Mem("value", JStr(S_hi))>>),
      JObj(<<Kind(StrTextEditGroup), Mem("uri", JObj(<<Mem("path", JStr(S_path))>>)),
             Mem("edits", JArr(<<JArr(<<JObj(<<Mem("text", JStr(S_hi))>>)>>),
                                 JInt(5),
                                 JArr(<<JObj(<<Mem("text", JStr(S_yo))>>),
                                        JObj(<<Mem("text", JInt(1))>>)>>)>>))>>),
      JObj(<<Kind(StrToolInvocationSerialized),
             Mem("pastTenseMessage", JObj(<<Mem("value", JStr(S_hi))>>))>>),
      JObj(<<Kind(StrToolInvocationSerialized)>>),
      JObj(<<Kind(S_unknownKind), Mem("value", JStr(S_hi))>>),
      JObj(<<Mem("kind", JInt(5)), Mem("value", JStr(S_hi))>>),
      JInt(5), JArr(<<JStr(S_hi)>>) }

Range(members) == Mem("value", JObj(<<Mem("uri", JObj(<<Mem("path", JStr(S_path))>>)),
                                     Mem("range", JObj(members))>>))

StartNo(n) == Mem("startLineNumber", n)

EndNo(n) == Mem("endLineNumber", n)

Name(s) == Mem("name", JStr(s))

\* Values that appear as elements of variableData.variables.
VarValues ==
    { JObj(<<Kind(StrFile), Name(<<"a">>),
             Mem("value", JObj(<<Mem("path", JStr(S_path))>>))>>),
      JObj(<<Kind(StrFile), Name(StrFilePrefix \o <<"b">>), Mem("id", JStr(S_selId))>>),
      JObj(<<Kind(StrFile), Name(<<"c">>), Range(<<StartNo(JInt(5)), EndNo(JInt(10))>>)>>),
      JObj(<<Kind(StrFile), Name(<<"d">>), Range(<<StartNo(JInt(1)), EndNo(JInt(1))>>)>>),
      JObj(<<Kind(StrFile), Name(<<"e">>), Mem("id", JStr(S_selId)),
             Range(<<StartNo(JInt(1)), EndNo(JInt(1))>>)>>),
      JObj(<<Kind(StrFile), Name(<<"g">>), Range(<<StartNo(JInt(2))>>)>>),
      JObj(<<Kind(StrFile), Name(<<"h">>), Range(<<EndNo(JInt(3))>>)>>),
      JObj(<<Kind(StrFile), Name(<<"j">>), Range(<<StartNo(JInt(-4)), EndNo(JFloat)>>)>>),
      JObj(<<Kind(StrFile), Name(<<"k">>),
             Range(<<StartNo(JWide(1, 1)), EndNo(JInt(1))>>)>>),
      JObj(<<Kind(StrFile), Name(<<"r">>),
             Range(<<StartNo(JInt(2)), EndNo(JWide(1, 2))>>)>>),
      JObj(<<Kind(StrFile), Name(<<"s">>),
             Range(<<StartNo(JWide(1, 1)), EndNo(JWide(2, 1))>>)>>),
      JObj(<<Kind(StrFile), Name(<<"t">>), Range(<<StartNo(JWide(1, 5))>>)>>),
      JObj(<<Kind(StrFile), Name(<<"u">>),
             Range(<<StartNo(JWide(-1, 3)), EndNo(JBig(4))>>)>>),
      JObj(<<Kind(StrFile), Name(<<"l">>), Mem("id", JStr(S_selId)),
             Mem("value", JObj(<<Mem("range", JNull)>>))>>),
      JObj(<<Kind(StrPromptFile), Name(StrPromptPrefix \o <<"m">>)>>),
      JObj(<<Kind(StrFolder), Name(<<"n">>),
             Mem("value", JObj(<<Mem("path", JStr(S_path))>>))>>),
      JObj(<<Kind(S_tool), Name(<<"o">>)>>),
      JObj(<<Name(<<"q">>)>>),
      JInt(5) }

Opt(members) == {<<>>} \cup {<<m>> : m \in members}

\* Requests that vary the scalar fields and the message.
ScalarReqs ==
    { JObj(ts \o mid \o ag \o msg) :
        ts  \in Opt({ Mem("timestamp", v) :
                        v \in {JInt(5), JInt(-5), JWide(1, 7), JBig(9), JFloat, JStr(S_hi)} }),
        mid \in Opt({ Mem("modelId", v) : v \in {JStr(S_hi), JInt(4)} }),
        ag  \in Opt({ Mem("agent", v) :
                        v \in {JObj(<<Mem("name", JStr(S_yo))>>), JStr(S_yo),
                               JObj(<<Mem("name", JInt(1))>>)} }),
        msg \in Opt({ Mem("message", v) :
                        v \in {JObj(<<Mem("text", JStr(S_hi))>>),
                               JObj(<<Mem("text", JStr(S_hi)), Mem("parts", JArr(<<>>))>>),
                               JObj(<<Mem("text", JInt(5))>>),
                               JObj(<<>>),
                               JStr(S_hi),
                               JArr(<<JStr(S_hi)>>),
                               JArr(<<JStr(S_hi), JStr(S_yo)>>)} }) }

\* Requests that vary the response.
ResponseReqs ==
    { JObj(<<Mem("response", JArr(es))>>) : es \in SeqsUpTo(ElemValues, MaxElems) }
    \cup { JObj(<<Mem("response", v)>>) :
             v \in {JNull, JStr(S_hi), JObj(<<Mem("value", JStr(S_hi))>>)} }

\* Requests that vary the attached context.
ContextReqs ==
    { JObj(<<Mem("variableData", JObj(<<Mem("variables", JArr(vs))>>))>>) :
        vs \in SeqsUpTo(VarValues, MaxVars) }
    \cup { JObj(<<Mem("variableData", v)>>) :
             v \in {JNull, JObj(<<>>), JObj(<<Mem("variables", JNull)>>),
                    JObj(<<Mem("variables", JObj(<<Kind(StrFile)>>))>>),
                    JArr(<<JObj(<<Kind(StrFile)>>)>>)} }

\* Elements of requests that are not objects.
NonObjectReqs == {JNull, JInt(5), JStr(S_hi), JArr(<<>>), JArr(<<JStr(S_hi)>>)}

\* A few requests, for documents with several of them.
SomeReqs ==
    { JObj(<<Mem("message", JObj(<<Mem("text", JStr(S_hi))>>)),
             Mem("response", JArr(<<JObj(<<Mem("value", JStr(S_yo))>>)>>))>>),
      JObj(<<Mem("message", JObj(<<Mem("text", JStr(S_yo))>>)), Mem("timestamp", JInt(5))>>),
      JObj(<<>>),
      JInt(5) }

Responder == Mem("responderUsername", JStr(<<"G">>))

Document(root) == [valid |-> TRUE, root |-> root]

\* Text that is not syntactically valid JSON.
InvalidDocument == [valid |-> FALSE, root |-> JNull]

\* Root objects made of a few members in any order, repeated or missing.
RootMemberChoices ==
    { Responder,
      Mem("responderUsername", JInt(5)),
      Mem("requests", JArr(<<>>)),
      Mem("requests", JNull),
      Mem("requests", JArr(<<JObj(<<>>)>>)),
      Mem("version", JInt(3)) }

\* Roots that are no object.
OtherRoots ==
    { JNull, JInt(1), JStr(<<"G">>), JArr(<<>>), JArr(<<JStr(<<"G">>)>>),
      JArr(<<JStr(<<"G">>), JArr(<<>>)>>),
      JArr(<<JStr(<<"G">>), JArr(<<JObj(<<>>)>>)>>),
      JArr(<<JArr(<<>>), JStr(<<"G">>)>>),
      JArr(<<JStr(<<"G">>), JArr(<<>>), JInt(1)>>) }

Docs ==
    {InvalidDocument}
    \cup { Document(r) : r \in OtherRoots }
    \cup { Document(JObj(ms)) : ms \in SeqsUpTo(RootMemberChoices, MaxRootMembers) }
    \cup { Document(JObj(<<Responder, Mem("requests", JArr(<<r>>))>>)) :
             r \in ScalarReqs \cup ResponseReqs \cup ContextReqs \cup NonObjectReqs }
    \cup { Document(JObj(<<Mem("requests", JArr(rs)), Responder>>)) :
             rs \in SeqsUpTo(SomeReqs, MaxRequests) }

(***************************************************************************)
(* The decoder as a state machine: a document, then parse_chat.            *)
(***************************************************************************)
NoText == <<>>

\* struct RenderOptions
RenderOptions(tools, timestamps, model, agent, context, heading_offset) ==
    [show_tools |-> tools, show_timestamps |-> timestamps,
     show_model |-> model, show_agent |-> agent,
     show_context |-> context, heading_offset |-> heading_offset]

\* impl Default for RenderOptions
DefaultOptions == RenderOptions(FALSE, FALSE, TRUE, TRUE, TRUE, 0)

\* enum OutputTarget
OutputTarget_Directory(path) == [kind |-> "Directory", path |-> path]

OutputTarget_File(path) == [kind |-> "File", path |-> path]

OutputTarget_Stdout == [kind |-> "Stdout", path |-> <<>>]

\* struct Cli; render holds its show_* fields and heading_offset, the fields
\* make_render_options copies.
Cli(input, target, concat, render, quiet, dry_run, force) ==
    [input |-> input, output |-> target, concat |-> concat, render |-> render,
     quiet |-> quiet, dry_run |-> dry_run, force |-> force]

\* No command line: the state of the variables of main outside a run of it.
NoCli == Cli(<<>>, OutputTarget_Stdout, FALSE, DefaultOptions, FALSE, FALSE, FALSE)

CliIdle ==
    /\ cli = NoCli
    /\ files = <<>>
    /\ processed = 0
    /\ output = NoText
    /\ disk = <<>>
    /\ dirs = {}
    /\ stdout = NoText
    /\ stderr = <<>>

InitDecode ==
    /\ pc = "input"
    /\ doc \in Docs
    /\ chat = Err
    /\ text = NoText
    /\ levels = 0
    /\ shifted = NoText
    /\ escaped = NoText
    /\ out = NoText
    /\ options = DefaultOptions
    /\ nrendered = 0
    /\ overflow_checks = TRUE
    /\ CliIdle

\* parse_chat(json_str)
ParseChat ==
    /\ pc = "input"
    /\ chat' = parse_chat(doc)
    /\ pc' = "parsed"
    /\ UNCHANGED <<doc, text, levels, shifted, escaped, out, options, nrendered, overflow_checks, cliVars>>

NextDecode == ParseChat

SpecDecode == InitDecode /\ [][NextDecode]_vars

(***************************************************************************)
(* Properties of the decoder.                                              *)
(***************************************************************************)
IsStrAt(v, path) == Navigate(v, path).some /\ Navigate(v, path).v.t = "str"

IsArrAt(v, path) == Navigate(v, path).some /\ Navigate(v, path).v.t = "arr"

\* The elements of a JSON array found at a path, <<>> when there is none.
ArrAt(v, path) == IF IsArrAt(v, path) THEN Navigate(v, path).v.a ELSE <<>>

\* The root is an object with a string responderUsername and an array requests.
RootWellFormed(d) ==
    /\ d.valid
    /\ d.root.t = "obj"
    /\ IsStrAt(d.root, <<"responderUsername">>)
    /\ IsArrAt(d.root, <<"requests">>)

UniqueKeys(v) ==
    \A i, j \in 1..Len(v.o) : v.o[i].k = v.o[j].k => i = j

DocRequests(d) == ArrAt(d.root, <<"requests">>)

\* C1: parse_chat succeeds if and only if the input is valid JSON whose root
\* is an object with a string responderUsername and an array requests; with
\* an empty requests array it succeeds with no exchange.  (Stated for
\* documents that give no key of the root twice.)
C1_DecodeSucceedsIffRootShape ==
    (pc = "parsed" /\ UniqueKeys(doc.root)) =>
        /\ chat.ok <=> RootWellFormed(doc)
        /\ (RootWellFormed(doc) /\ DocRequests(doc) = <<>>)
               => (chat.ok /\ chat.requests = <<>>)

\* C2: decoding an element of requests never fails, whatever its shape; each
\* field that is absent or of the wrong type gets its default (timestamp 0,
\* model_id and agent_name absent, attachments empty, user text empty,
\* response empty) and each well-typed field is extracted.
C2_ExchangeDefaults ==
    (pc = "parsed" /\ RootWellFormed(doc) /\ UniqueKeys(doc.root)) =>
        /\ chat.ok
        /\ Len(chat.requests) = Len(DocRequests(doc))
        /\ \A i \in 1..Len(DocRequests(doc)) :
             LET v == DocRequests(doc)[i]
                 r == chat.requests[i]
                 ts == Get(v, "timestamp")
             IN  /\ r.timestamp = IF ts.some /\ ts.v.t = "int"
                                  THEN [h |-> ts.v.h, n |-> ts.v.n]
                                  ELSE ZeroTimestamp
                 /\ r.model_id = IF IsStrAt(v, <<"modelId">>)
                                 THEN SomeS(Navigate(v, <<"modelId">>).v.s) ELSE NoneS
                 /\ r.agent_name = IF IsStrAt(v, <<"agent", "name">>)
                                   THEN SomeS(Navigate(v, <<"agent", "name">>).v.s)
                                   ELSE NoneS
                 /\ r.message.text =
                        IF Get(v, "message").some /\ Get(v, "message").v.t = "obj"
                           /\ IsStrAt(v, <<"message", "text">>)
                        THEN Navigate(v, <<"message", "text">>).v.s ELSE <<>>
                 /\ Len(r.response) = Len(ArrAt(v, <<"response">>))
                 /\ (~IsArrAt(v, <<"variableData", "variables">>) => r.context = <<>>)

\* C3: a response element that has both a kind member and a value member is
\* decoded by its kind and never as Text, whatever the JSON type of the kind.
C3_TagPriority ==
    (pc = "parsed" /\ RootWellFormed(doc) /\ chat.ok) =>
        \A i \in 1..Len(DocRequests(doc)) :
            LET es == ArrAt(DocRequests(doc)[i], <<"response">>)
            IN  \A j \in 1..Len(es) :
                  (es[j].t = "obj" /\ Get(es[j], "kind").some /\ Get(es[j], "value").some)
                      => chat.requests[i].response[j].variant # "Text"

KnownKinds ==
    {StrInlineReference, StrCodeblockUri, StrTextEditGroup, StrToolInvocationSerialized}

\* C4: when response is an array, element j decodes to exactly one
\* ResponseElement at position j: a kind string outside the four known tags
\* gives Other, no kind and a string value gives Text of that string, neither a
\* kind nor a value gives Other; nothing is dropped and nothing fails.
C4_ResponseTotal ==
    (pc = "parsed" /\ RootWellFormed(doc) /\ UniqueKeys(doc.root)) =>
        /\ chat.ok
        /\ \A i \in 1..Len(DocRequests(doc)) :
             LET v  == DocRequests(doc)[i]
                 es == ArrAt(v, <<"response">>)
                 rs == chat.requests[i].response
             IN  /\ Len(rs) = Len(es)
                 /\ \A j \in 1..Len(es) :
                      LET e == es[j] IN
                      /\ (IsStrAt(e, <<"kind">>) /\ Navigate(e, <<"kind">>).v.s \notin KnownKinds)
                             => rs[j] = Other
                      /\ (~Get(e, "kind").some /\ IsStrAt(e, <<"value">>))
                             => (rs[j].variant = "Text"
                                 /\ rs[j].text = Navigate(e, <<"value">>).v.s)
                      /\ (~Get(e, "kind").some /\ ~Get(e, "value").some)
                             => rs[j] = Other

\* C4 witness: a response of two elements, an unknown kind that also carries a
\* string value and then a text, decoded as Other followed by Text.
C4_Witness ==
    /\ pc = "parsed"
    /\ chat.ok
    /\ Len(chat.requests) = 1
    /\ ArrAt(DocRequests(doc)[1], <<"response">>) =
           <<JObj(<<Kind(S_unknownKind), Mem("value", JStr(S_hi))>>),
             JObj(<<Mem("value", JStr(S_yo))>>)>>
    /\ Len(chat.requests[1].response) = 2
    /\ chat.requests[1].response[1] = Other
    /\ chat.requests[1].response[2].variant = "Text"

IsAttachmentVar(var) ==
    IsStrAt(var, <<"kind">>)
    /\ Navigate(var, <<"kind">>).v.s \in {StrFile, StrPromptFile, StrFolder}

\* The variables of a request, and those of them that are attachments.
VarsOf(v) == ArrAt(v, <<"variableData", "variables">>)

KeptVars(v) == SelectSeq(VarsOf(v), IsAttachmentVar)

IsFileVar(var) == IsStrAt(var, <<"kind">>) /\ Navigate(var, <<"kind">>).v.s = StrFile

IsLineNo(var, key) ==
    LET g == Navigate(var, <<"value", "range", key>>)
    IN  g.some /\ (g.v.t = "big" \/ (g.v.t = "int" /\ g.v.h >= 0 /\ g.v.n >= 0))

\* The start and end line a variable reports, as 32-bit numbers.
StartOf(var) ==
    IF IsLineNo(var, "startLineNumber")
    THEN Navigate(var, <<"value", "range", "startLineNumber">>).v.n ELSE 1

EndOf(var) ==
    IF IsLineNo(var, "endLineNumber")
    THEN Navigate(var, <<"value", "range", "endLineNumber">>).v.n ELSE StartOf(var)

IdHasSelection(var) ==
    IsStrAt(var, <<"id">>) /\ Contains(Navigate(var, <<"id">>).v.s, StrSelection)

HasLineRange(var) ==
    /\ Navigate(var, <<"value", "range">>).some
    /\ Navigate(var, <<"value", "range">>).v.t = "obj"
    /\ IsLineNo(var, "startLineNumber")
    /\ IsLineNo(var, "endLineNumber")

\* The attachments of request i, each with the variable it was decoded from.
PairsOf(i) ==
    LET kept  == KeptVars(DocRequests(doc)[i])
        items == chat.requests[i].context
    IN  { <<kept[k], items[k]>> : k \in 1..Min2(Len(kept), Len(items)) }

AttachmentPairs ==
    UNION { PairsOf(i) : i \in 1..Min2(Len(DocRequests(doc)), Len(chat.requests)) }

\* C5 as stated: a "file" variable is a Selection when it carries a range with
\* start/end line numbers, or its id contains "selection", or start # end, or
\* start > 1; a File only when none of these holds.
C5_SelectionIfAnyOf ==
    (pc = "parsed" /\ chat.ok) =>
        \A p \in AttachmentPairs :
            IsFileVar(p[1]) =>
                (p[2].variant = "Selection"
                    <=> (HasLineRange(p[1]) \/ IdHasSelection(p[1])
                         \/ StartOf(p[1]) # EndOf(p[1]) \/ StartOf(p[1]) > 1))

\* C5 amended: a "file" variable is a Selection exactly when its value has a
\* range member and (its id contains "selection", or start # end, or
\* start > 1); otherwise a File.  The start line is 1 and the end line the
\* start line when absent or no unsigned integer.
C5_SelectionRule ==
    (pc = "parsed" /\ chat.ok) =>
        \A p \in AttachmentPairs :
            IsFileVar(p[1]) =>
                /\ p[2].variant \in {"Selection", "File"}
                /\ p[2].variant = "Selection"
                      <=> (Navigate(p[1], <<"value", "range">>).some
                           /\ (IdHasSelection(p[1]) \/ StartOf(p[1]) # EndOf(p[1])
                               \/ StartOf(p[1]) > 1))
                /\ p[2].variant = "Selection"
                      => (p[2].start_line = StartOf(p[1]) /\ p[2].end_line = EndOf(p[1]))

\* C5 witness: a variable with the range 1..1 decoded as File next to one with
\* the range 5..10 decoded as Selection 5..10.
C5_Witness ==
    /\ pc = "parsed"
    /\ chat.ok
    /\ \E p, q \in AttachmentPairs :
         /\ HasLineRange(p[1]) /\ StartOf(p[1]) = 1 /\ EndOf(p[1]) = 1
         /\ p[2].variant = "File"
         /\ q[2].variant = "Selection" /\ q[2].start_line = 5 /\ q[2].end_line = 10

VariantOfKind(kind) ==
    CASE kind = StrFile -> {"File", "Selection"}
      [] kind = StrPromptFile -> {"Instructions"}
      [] kind = StrFolder -> {"Folder"}
      [] OTHER -> {}

\* C6: the attachments of a request are exactly the variables whose kind is
\* "file", "promptFile" or "folder", one attachment each, in the order of the
\* variables; other variables give nothing, and an absent or non-array
\* variableData.variables gives the empty list.
C6_AttachmentFilter ==
    (pc = "parsed" /\ RootWellFormed(doc) /\ UniqueKeys(doc.root)) =>
        /\ chat.ok
        /\ \A i \in 1..Len(DocRequests(doc)) :
             LET kept  == KeptVars(DocRequests(doc)[i])
                 items == chat.requests[i].context
             IN  /\ Len(items) = Len(kept)
                 /\ \A k \in 1..Len(kept) :
                      /\ items[k].variant \in VariantOfKind(Navigate(kept[k], <<"kind">>).v.s)
                      /\ items[k].name =
                             clean_context_name(UnwrapOr(get_str(kept[k], <<"name">>), <<>>))

\* C6 witness: two variables of which only the second is an attachment.
C6_Witness ==
    /\ pc = "parsed"
    /\ chat.ok
    /\ Len(chat.requests) = 1
    /\ Len(VarsOf(DocRequests(doc)[1])) = 2
    /\ ~IsAttachmentVar(VarsOf(DocRequests(doc)[1])[1])
    /\ IsAttachmentVar(VarsOf(DocRequests(doc)[1])[2])
    /\ Len(chat.requests[1].context) = 1
    /\ chat.requests[1].context[1].variant = "Folder"

(***************************************************************************)
(* Renderer inputs: texts built from segments that make headings, fences   *)
(* and tags.                                                               *)
(***************************************************************************)
MaxSegs == 4

MaxEscSegs == 4

MaxOpenerLen == 3

MaxFencedLen == 2

\* The tool glyph of render_tool_invocations, as one character.
Wrench == "WRENCH"

Hashes6 == <<"#", "#", "#", "#", "#", "#">>

\* Lines and pieces of lines around headings and fences.
HeadingSegs ==
    { Backticks3 \o <<NL>>, Tildes3 \o <<NL>>, <<NL>>, <<CR, NL>>,
      <<"#", " ">>, <<"#">>, Hashes6, <<" ">> }

HeadingTexts == { Concat(ss) : ss \in SeqsUpTo(HeadingSegs, MaxSegs) }

\* Tags, comparisons and closing brackets.
EscSegs == { <<"<", "a">>, <<"<">>, <<">">>, <<" ">> }

EscTexts == { Concat(ss) : ss \in SeqsUpTo(EscSegs, MaxEscSegs) }

\* The characters after "<" that open a tag, and one that does not.
OpenerTexts == SeqsUpTo({"<", "/", "!", "1"}, MaxOpenerLen)

\* A fenced block with something in it, closed or not, and a line after it.
FencedTexts ==
    { open \o <<NL>> \o body \o close \o after :
        open  \in {Backticks3, Backticks3 \o <<"r", "s">>},
        body  \in SeqsUpTo({"<", "a", ">", "#", " "}, MaxFencedLen),
        close \in {<<>>, <<NL>> \o Backticks3},
        after \in {<<>>, <<NL, "#", " ", "<", "b", ">">>} }

Texts == HeadingTexts \cup EscTexts \cup OpenerTexts \cup FencedTexts

\* The shift amounts: none, 1, 2 (2 + heading_offset 0) and the largest u8.
Levels == {0, 1, 2, 255}

(***************************************************************************)
(* The text transforms as a state machine: a text, then the calls the      *)
(* renderer makes on it.                                                   *)
(***************************************************************************)
InitText ==
    /\ pc = "text"
    /\ doc = InvalidDocument
    /\ chat = Err
    /\ text \in Texts
    /\ levels = 0
    /\ shifted = NoText
    /\ escaped = NoText
    /\ out = NoText
    /\ options = DefaultOptions
    /\ nrendered = 0
    /\ overflow_checks = TRUE
    /\ CliIdle

\* let shifted = shift_headings(text, levels)   (render_request, render_response)
ShiftHeadings ==
    /\ pc = "text"
    /\ \E lv \in Levels :
         /\ levels' = lv
         /\ shifted' = shift_headings(text, lv)
    /\ pc' = "shifted"
    /\ UNCHANGED <<doc, chat, text, escaped, out, options, nrendered, overflow_checks, cliVars>>

\* writeln!(out, "{}\n", escape_xml_tags(&shifted))   (render_request)
EscapeShifted ==
    /\ pc = "shifted"
    /\ escaped' = escape_xml_tags(shifted)
    /\ out' = escaped' \o <<NL, NL>>
    /\ pc' = "user"
    /\ UNCHANGED <<doc, chat, text, levels, shifted, options, nrendered, overflow_checks, cliVars>>

\* writeln!(out, "> (glyph) {}", escape_xml_tags(msg))   (render_tool_invocations)
EscapeToolMessage ==
    /\ pc = "text"
    /\ escaped' = escape_xml_tags(text)
    /\ out' = <<">", " ", Wrench, " ">> \o escaped' \o <<NL>>
    /\ pc' = "tool"
    /\ UNCHANGED <<doc, chat, text, levels, shifted, options, nrendered, overflow_checks, cliVars>>

NextText == ShiftHeadings \/ EscapeShifted \/ EscapeToolMessage

SpecText == InitText /\ [][NextText]_vars

(***************************************************************************)
(* Properties of the text transforms.                                      *)
(***************************************************************************)
\* The text handed to escape_xml_tags in the current state.
EscapeInput == IF pc = "tool" THEN text ELSE shifted

\* The lines of a transformed text, to set beside the lines of its input.
OutLines(ins, result) == IF ins = <<>> THEN <<>> ELSE SplitOn(result, NL)

\* How many of the lines before line i are fence lines.
FencesBefore(ls, i) == Cardinality({k \in 1..(i - 1) : IsFenceLine(ls[k])})

\* Line i lies between a fence opening line and the next fence line.
InsideFence(ls, i) ==
    /\ ~IsFenceLine(ls[i])
    /\ FencesBefore(ls, i) % 2 = 1
    /\ \E k \in (i + 1)..Len(ls) : IsFenceLine(ls[k])

\* Line i is outside every fence and is no fence line.
OutsideFence(ls, i) == ~IsFenceLine(ls[i]) /\ FencesBefore(ls, i) % 2 = 0

\* C7: in a text rendered as a user message or Text element (heading shift
\* of 2 or more, then escaping), every line between a fence opening line and
\* the next fence line comes out byte-identical.
C7_FenceProtected ==
    (pc = "user" /\ levels >= 2) =>
        LET ins  == lines(text)
            outs == OutLines(ins, escaped)
        IN  \A i \in 1..Len(ins) :
                InsideFence(ins, i) => (i <= Len(outs) /\ outs[i] = ins[i])

TagOpeners == AsciiAlphabetic \cup {"/", "!"}

\* C8: the output of escape_xml_tags has no "<" directly followed by an ASCII
\* letter, "/" or "!"; a text with no such "<" is returned unchanged.
C8_EscapingSafe ==
    pc \in {"user", "tool"} =>
        /\ \A i \in 1..(Len(escaped) - 1) :
               escaped[i] = "<" => escaped[i + 1] \notin TagOpeners
        /\ (\A i \in 1..(Len(EscapeInput) - 1) :
               EscapeInput[i] = "<" => EscapeInput[i + 1] \notin TagOpeners)
             => escaped = EscapeInput

\* C8 witness: a tool message with a comparison and a tag.
C8_Witness ==
    /\ pc = "tool"
    /\ text = <<"<", " ", "<", "a", ">">>
    /\ escaped = <<"<", " ">> \o EntityLt \o <<"a">> \o EntityGt

\* The "<" at position i is followed by a tag opener.
LtEscaped(s, i) == s[i] = "<" /\ i < Len(s) /\ s[i + 1] \in TagOpeners

\* The ">" at position i has an escaped "<" before it with no escaped ">" in
\* between.
RECURSIVE GtEscaped(_, _)
GtEscaped(s, i) ==
    /\ s[i] = ">"
    /\ \E j \in 1..(i - 1) :
          /\ LtEscaped(s, j)
          /\ \A k \in (j + 1)..(i - 1) : ~GtEscaped(s, k)

\* How many times sub occurs in s.
Occurrences(s, sub) ==
    Cardinality({i \in 1..(Len(s) - Len(sub) + 1) : SubSeq(s, i, i + Len(sub) - 1) = sub})

\* C9: a ">" becomes "&gt;" exactly when an escaped "<" precedes it with no
\* escaped ">" in between, and passes through otherwise; so no output has more
\* "&gt;" than "&lt;", and between two escaped ">" there is an escaped "<".
C9_TagState ==
    pc \in {"user", "tool"} =>
        LET s == EscapeInput IN
        /\ escaped = Concat([i \in 1..Len(s) |->
                                IF LtEscaped(s, i) THEN EntityLt
                                ELSE IF GtEscaped(s, i) THEN EntityGt
                                ELSE <<s[i]>>])
        /\ Occurrences(escaped, EntityGt) <= Occurrences(escaped, EntityLt)
        /\ \A i, k \in 1..Len(s) :
               (i < k /\ GtEscaped(s, i) /\ GtEscaped(s, k))
                   => \E j \in (i + 1)..(k - 1) : LtEscaped(s, j)

\* C9 witness: two tags opened, then two ">": only the first is escaped.
C9_Witness ==
    /\ pc = "tool"
    /\ text = <<"<", "a", "<", "a", ">", ">">>
    /\ escaped = EntityLt \o <<"a">> \o EntityLt \o <<"a">> \o EntityGt \o <<">">>

\* C10: for a shift of 1 or more, a line outside a fence that starts with h
\* "#" (1 <= h <= 6) followed by a space comes out with min(h + shift, 6)
\* leading "#" and the rest of the line unchanged, never more than 6; a line
\* with no space after the "#", with more than 6 "#", or with leading
\* whitespace is not a heading and comes out unchanged.
C10_HeadingShift ==
    (pc = "shifted" /\ levels >= 1) =>
        LET ins  == lines(text)
            outs == OutLines(ins, shifted)
        IN  /\ Len(outs) = Len(ins)
            /\ \A i \in 1..Len(ins) :
                 LET line == ins[i]
                     h    == HashCount(line)
                     isHeading == h >= 1 /\ h <= 6 /\ Len(line) > h /\ line[h + 1] = " "
                 IN  OutsideFence(ins, i) =>
                       /\ isHeading =>
                            /\ outs[i] = Repeat("#", IF h + levels < 6 THEN h + levels ELSE 6)
                                         \o SubSeq(line, h + 1, Len(line))
                            /\ HashCount(outs[i]) <= 6
                       /\ ~isHeading => outs[i] = line

\* C10 witness: an h1 shifted to h3 and an h6 that stays at the cap, next to
\* lines that are no headings.
C10_Witness ==
    /\ pc = "shifted"
    /\ levels = 2
    /\ text = <<"#", " ", NL>> \o Hashes6 \o <<" ">>
    /\ shifted = <<"#", "#", "#", " ", NL>> \o Hashes6 \o <<" ">>


\* The pieces of a text between its "\n" characters: each piece keeps its "\r"
\* and the last piece is empty exactly when the text ends in "\n".
Pieces(s) == SplitOn(s, NL)

\* In a text cut on "\n", piece i is a heading line outside every fence.
ShiftedPiece(ps, i) == OutsideFence(ps, i) /\ IsHeadingLine(ps[i])

\* C11: for a shift of 1 or more, shift_headings changes nothing but the
\* leading "#" run of heading lines outside fences: the output has as many
\* lines as the input, cut by the same terminators ("\n" or "\r\n") and with a
\* trailing newline exactly when the input has one, and every other line is
\* unchanged.
C11_ShiftFrame ==
    (pc = "shifted" /\ levels >= 1) =>
        LET ins  == Pieces(text)
            outs == Pieces(shifted)
        IN  /\ Len(outs) = Len(ins)
            /\ \A i \in 1..Len(ins) :
                 IF ShiftedPiece(ins, i)
                 THEN SubSeq(outs[i], HashCount(outs[i]) + 1, Len(outs[i]))
                          = SubSeq(ins[i], HashCount(ins[i]) + 1, Len(ins[i]))
                 ELSE outs[i] = ins[i]


(***************************************************************************)
(* renderer.rs: the document.  Formatting helpers first.                   *)
(***************************************************************************)
DigitChars == <<"0", "1", "2", "3", "4", "5", "6", "7", "8", "9">>

\* Display of an unsigned integer: its decimal digits.
RECURSIVE ToDecimal(_)
ToDecimal(n) ==
    IF n < 10 THEN <<DigitChars[n + 1]>>
    ELSE ToDecimal(n \div 10) \o <<DigitChars[(n % 10) + 1]>>

\* A number in at least k digits, padded with zeros on the left.
ZeroPad(n, k) ==
    LET d == ToDecimal(n)
    IN  IF Len(d) >= k THEN d ELSE Repeat("0", k - Len(d)) \o d

\* Characters outside ASCII, each one character of the text.
MiddleDot == "MIDDOT"

Paperclip == "PAPERCLIP"

EAcute == "EACUTE"

\* The number of bytes of a character in UTF-8.
Utf8Len(c) ==
    CASE c \in {Wrench, Paperclip} -> 4
      [] c \in {MiddleDot, EAcute} -> 2
      [] OTHER -> 1

\* str::len: the length of a text in bytes.
RECURSIVE ByteLen(_)
ByteLen(s) == IF s = <<>> THEN 0 ELSE Utf8Len(Head(s)) + ByteLen(Tail(s))

\* str::trim_end() and str::trim()
RECURSIVE trim_end(_)
trim_end(s) ==
    IF s # <<>> /\ s[Len(s)] \in Whitespace THEN trim_end(SubSeq(s, 1, Len(s) - 1)) ELSE s

trim(s) == trim_end(trim_start(s))

heading_NoCap(level, offset) == Repeat("#", level + offset)

\* a + b on u8 is above u8::MAX: a panic in a build with overflow checks.
U8Overflows(a, b) == a + b > 255

\* a + b on u8 where it does not panic: the sum modulo 2^8.
U8Add(a, b) == (a + b) % 256

\* fn heading(level, offset): (level + offset).min(6) "#" characters; the sum
\* is a u8.
heading(level, offset) == Repeat("#", Min2(U8Add(level, offset), 6))

(***************************************************************************)
(* DateTime::from_timestamp_millis(ts).map(format "%Y-%m-%d %H:%M UTC").   *)
(* A timestamp is the i64 h * 2^32 + n.                                    *)
(***************************************************************************)
\* The high words of the first and last instants a DateTime can hold
\* (-262143-01-01 00:00:00 and +262142-12-31 23:59:59.999), and the low word
\* of the first; the low word of the last is above every n of the model.
TsMinH == -1940551

TsMinN == 1852420096

TsMaxH == 1911601

InRange(ts) ==
    /\ ts.h > TsMinH \/ (ts.h = TsMinH /\ ts.n >= TsMinN)
    /\ ts.h <= TsMaxH

\* millis.div_euclid(1000), with 2^32 = 4294967 * 1000 + 296
SecsOf(ts) == ts.h * 4294967 + ((ts.h * 296 + ts.n) \div 1000)

\* The proleptic Gregorian date of a day number counted from 1970-01-01.
CivilFromDays(days) ==
    LET z   == days + 719468
        era == z \div 146097
        doe == z - era * 146097
        yoe == (doe - (doe \div 1460) + (doe \div 36524) - (doe \div 146096)) \div 365
        doy == doe - (365 * yoe + (yoe \div 4) - (yoe \div 100))
        mp  == (5 * doy + 2) \div 153
        m   == IF mp < 10 THEN mp + 3 ELSE mp - 9
    IN  [year  |-> yoe + era * 400 + (IF m <= 2 THEN 1 ELSE 0),
         month |-> m,
         day   |-> doy - ((153 * mp + 2) \div 5) + 1]

\* %Y: four digits, and a sign once the year leaves 0..9999
FormatYear(y) ==
    IF y < 0 THEN <<"-">> \o ZeroPad(0 - y, 4)
    ELSE IF y > 9999 THEN <<"+">> \o ToDecimal(y)
    ELSE ZeroPad(y, 4)

FormatTimestamp(ts) ==
    LET secs == SecsOf(ts)
        date == CivilFromDays(secs \div 86400)
        sod  == secs % 86400
    IN  FormatYear(date.year) \o <<"-">> \o ZeroPad(date.month, 2) \o <<"-">>
        \o ZeroPad(date.day, 2) \o <<" ">> \o ZeroPad(sod \div 3600, 2) \o <<":">>
        \o ZeroPad((sod % 3600) \div 60, 2) \o <<" ", "U", "T", "C">>

\* render_request 137-138: Option<String>
from_timestamp_millis(ts) == IF InRange(ts) THEN SomeS(FormatTimestamp(ts)) ELSE NoneS


(***************************************************************************)
(* renderer.rs: render_request and what it calls.  RenderOptions is a      *)
(* record of the six fields; a Request is the record Request_deserialize   *)
(* builds.  Each operator is the text the function appends to out.         *)
(***************************************************************************)
StrCopilotChat == <<" ", "C", "o", "p", "i", "l", "o", "t", " ", "C", "h", "a", "t">>

StrUser == <<" ", "U", "s", "e", "r">>

StrAssistant == <<" ", "A", "s", "s", "i", "s", "t", "a", "n", "t">>

\* A variant of MetadataParts that puts the agent before the model.
MetadataParts_AgentFirst(req, opts) ==
    LET timestamp == from_timestamp_millis(req.timestamp)
    IN  (IF opts.show_timestamps /\ timestamp.some THEN <<timestamp.v>> ELSE <<>>)
        \o (IF opts.show_agent /\ req.agent_name.some
            THEN <<<<"@">> \o req.agent_name.v>> ELSE <<>>)
        \o (IF opts.show_model /\ req.model_id.some THEN <<req.model_id.v>> ELSE <<>>)

\* render_request 137-164: the metadata parts.
MetadataParts(req, opts) ==
    LET timestamp == from_timestamp_millis(req.timestamp)
    IN  (IF opts.show_timestamps /\ timestamp.some THEN <<timestamp.v>> ELSE <<>>)
        \o (IF opts.show_model /\ req.model_id.some THEN <<req.model_id.v>> ELSE <<>>)
        \o (IF opts.show_agent /\ req.agent_name.some
            THEN <<<<"@">> \o req.agent_name.v>> ELSE <<>>)

\* render_request 166-170
Metadata(req, opts) ==
    LET parts == MetadataParts(req, opts)
    IN  IF parts = <<>> THEN <<>>
        ELSE <<"*">> \o Join(parts, <<" ", MiddleDot, " ">>) \o <<"*">>

\* render_request 173-175: the metadata line.
MetadataLine(req, opts) ==
    IF Metadata(req, opts) # <<>> THEN Metadata(req, opts) \o <<NL, NL>> ELSE <<>>

\* fn format_path_display(name, path); path.len() is a length in bytes.
MAX_INLINE_PATH_LEN == 30

format_path_display(name, path) ==
    IF path = <<>> \/ ByteLen(path) <= MAX_INLINE_PATH_LEN
    THEN <<Backtick>> \o name \o <<Backtick>>
    ELSE <<"[", Backtick>> \o name \o <<Backtick, "]", "(">> \o path
         \o <<" ", "\"">> \o path \o <<"\"", ")">>

SuffixFile == <<" ", "(", "f", "i", "l", "e", ")">>

SuffixSelection == <<" ", "(", "s", "e", "l", "e", "c", "t", "i", "o", "n", ")">>

SuffixFolder == <<" ", "(", "f", "o", "l", "d", "e", "r", ")">>

SuffixInstructions ==
    <<" ", "(", "i", "n", "s", "t", "r", "u", "c", "t", "i", "o", "n", "s", ")">>

\* A variant of format_context_item that always prints start and end.
format_context_item_BothLines(item) ==
    CASE item.variant = "File" ->
           format_path_display(item.name, item.path) \o SuffixFile
      [] item.variant = "Selection" ->
           format_path_display(item.name, item.path)
           \o <<":">> \o ToDecimal(item.start_line) \o <<"-">> \o ToDecimal(item.end_line)
           \o SuffixSelection
      [] item.variant = "Folder" ->
           format_path_display(item.name, item.path) \o SuffixFolder
      [] item.variant = "Instructions" ->
           <<Backtick>> \o item.name \o <<Backtick>> \o SuffixInstructions

\* fn format_context_item(item)
format_context_item(item) ==
    CASE item.variant = "File" ->
           format_path_display(item.name, item.path) \o SuffixFile
      [] item.variant = "Selection" ->
           format_path_display(item.name, item.path)
           \o (IF item.start_line = item.end_line
               THEN <<":">> \o ToDecimal(item.start_line)
               ELSE <<":">> \o ToDecimal(item.start_line)
                    \o <<"-">> \o ToDecimal(item.end_line))
           \o SuffixSelection
      [] item.variant = "Folder" ->
           format_path_display(item.name, item.path) \o SuffixFolder
      [] item.variant = "Instructions" ->
           <<Backtick>> \o item.name \o <<Backtick>> \o SuffixInstructions

StrDetailsOpen == <<"<", "d", "e", "t", "a", "i", "l", "s", ">", NL>>

StrSummary ==
    <<"<", "s", "u", "m", "m", "a", "r", "y", ">", Paperclip, " ",
      "C", "o", "n", "t", "e", "x", "t",
      "<", "/", "s", "u", "m", "m", "a", "r", "y", ">", NL, NL>>

StrDetailsClose == <<NL, "<", "/", "d", "e", "t", "a", "i", "l", "s", ">", NL, NL>>

\* fn render_context(out, context)
render_context(context) ==
    StrDetailsOpen \o StrSummary
    \o Concat([i \in 1..Len(context) |->
                  <<"-", " ">> \o format_context_item(context[i]) \o <<NL>>])
    \o StrDetailsClose

\* render_request 177-180
ContextBlock(req, opts) ==
    IF opts.show_context /\ req.context # <<>> THEN render_context(req.context) ELSE <<>>

\* render_request 185-186: the user message.
UserMessage(req, opts) ==
    escape_xml_tags(shift_headings(req.message.text, U8Add(2, opts.heading_offset)))
    \o <<NL, NL>>

StrToolPrefix == <<">", " ", Wrench, " ">>

\* A variant of render_tool_invocations that always ends with the blank line.
render_tool_invocations_AlwaysBlank(elements) ==
    Concat([i \in 1..Len(elements) |->
               IF elements[i].variant = "ToolInvocation" /\ elements[i].past_tense.some
               THEN StrToolPrefix \o escape_xml_tags(elements[i].past_tense.v) \o <<NL>>
               ELSE <<>>])
    \o <<NL>>

\* fn render_tool_invocations(out, elements)
render_tool_invocations(elements) ==
    LET any_rendered ==
            \E i \in 1..Len(elements) :
                elements[i].variant = "ToolInvocation" /\ elements[i].past_tense.some
    IN  Concat([i \in 1..Len(elements) |->
                   IF elements[i].variant = "ToolInvocation" /\ elements[i].past_tense.some
                   THEN StrToolPrefix \o escape_xml_tags(elements[i].past_tense.v) \o <<NL>>
                   ELSE <<>>])
        \o (IF any_rendered THEN <<NL>> ELSE <<>>)

\* render_request 188-190
ToolLines(req, opts) ==
    IF opts.show_tools THEN render_tool_invocations(req.response) ELSE <<>>


(***************************************************************************)
(* renderer.rs: render_response and what it calls.                         *)
(***************************************************************************)
\* A variant of is_only_code_fences that takes every line that opens or
\* closes a fence for shift_headings.
is_only_code_fences_AnyFence(s) ==
    \A i \in 1..Len(lines(s)) :
        trim(lines(s)[i]) = <<>> \/ IsFenceLine(lines(s)[i])

\* fn is_only_code_fences(s)
is_only_code_fences(s) ==
    \A i \in 1..Len(lines(s)) :
        trim(lines(s)[i]) = <<>> \/ trim(lines(s)[i]) = Backticks3

\* fn escape_for_inline_code(s): s.replace(backquote, "'")
escape_for_inline_code(s) == [i \in 1..Len(s) |-> IF s[i] = Backtick THEN "'" ELSE s[i]]

\* Path::new(path).file_name() on Unix: the last component of the path when
\* it is a normal one.  Empty pieces (repeated and trailing separators) and
\* "." pieces are no components of their own; a path with no component left,
\* or one that ends in "..", has no file name.
file_name(path) ==
    LET comps == SelectSeq(SplitOn(path, "/"), LAMBDA p : p # <<>> /\ p # <<".">>)
    IN  IF comps = <<>> \/ comps[Len(comps)] = <<".", ".">> THEN NoneS
        ELSE SomeS(comps[Len(comps)])

\* A variant of InlineDisplay that prefers the file name to the display name.
InlineDisplay_PathFirst(name, path) ==
    UnwrapOr(OrElse(file_name(path), name), path)

\* render_response 288-291: name, or else the file name, or else the path.
InlineDisplay(name, path) ==
    UnwrapOr(OrElse(name, file_name(path)), path)

\* A variant of EditLineCount that counts the newlines of each text.
EditLineCount_Newlines(edits) ==
    Len(Concat([i \in 1..Len(edits) |-> SelectSeq(edits[i], LAMBDA c : c = NL)]))

\* render_response 299: edits.iter().map(|e| e.lines().count()).sum()
EditLineCount(edits) == Len(Concat([i \in 1..Len(edits) |-> lines(edits[i])]))

StrModified == <<NL, "*", "M", "o", "d", "i", "f", "i", "e", "d", " ", Backtick>>

StrLines == <<" ", "l", "i", "n", "e", "s", ")", "*", NL, NL>>

\* render_response 278-286: what a Text element appends.
TextOutput(txt, opts) ==
    IF trim(txt) = <<>> \/ is_only_code_fences(trim(txt)) THEN <<>>
    ELSE escape_xml_tags(shift_headings(txt, U8Add(2, opts.heading_offset)))

\* render_response 287-293: what an InlineReference appends.
InlineReferenceOutput(elem) ==
    <<Backtick>> \o escape_for_inline_code(InlineDisplay(elem.name, elem.path))
    \o <<Backtick>>

\* render_response 294-306: what a TextEditGroup with edits appends.
TextEditGroupOutput(elem) ==
    StrModified
    \o escape_for_inline_code(UnwrapOr(file_name(elem.path), elem.path))
    \o <<Backtick, " ", "(">> \o ToDecimal(EditLineCount(elem.edits)) \o StrLines

\* The match of render_response: what one element appends.
ElementOutput(elem, opts) ==
    CASE elem.variant = "Text" -> TextOutput(elem.text, opts)
      [] elem.variant = "InlineReference" -> InlineReferenceOutput(elem)
      [] elem.variant = "TextEditGroup" /\ elem.edits # <<>> -> TextEditGroupOutput(elem)
      [] OTHER -> <<>>

\* A variant of render_response that keeps one in_code_block flag for the whole
\* response instead of one per call of shift_headings.
RECURSIVE CarriedLoop(_, _, _)
CarriedLoop(elements, opts, in_code_block) ==
    IF elements = <<>> THEN <<>>
    ELSE LET e == Head(elements)
             lv == U8Add(2, opts.heading_offset)
             ls == lines(e.text)
             fences == Cardinality({k \in 1..Len(ls) : IsFenceLine(ls[k])})
         IN  IF e.variant = "Text" /\ TextOutput(e.text, opts) # <<>>
             THEN escape_xml_tags(Join(ShiftLoop(ls, lv, in_code_block), <<NL>>))
                  \o CarriedLoop(Tail(elements), opts, in_code_block # (fences % 2 = 1))
             ELSE ElementOutput(e, opts) \o CarriedLoop(Tail(elements), opts, in_code_block)

render_response_CarriedFence(elements, opts) ==
    CarriedLoop(elements, opts, FALSE) \o <<NL, NL>>

\* fn render_response(out, elements, opts)
render_response(elements, opts) ==
    Concat([i \in 1..Len(elements) |-> ElementOutput(elements[i], opts)]) \o <<NL, NL>>

\* A variant of render_request that writes the Assistant heading before the
\* user message.
render_request_AssistantEarly(req, opts) ==
    heading(2, opts.heading_offset) \o StrUser \o <<NL, NL>>
    \o MetadataLine(req, opts) \o ContextBlock(req, opts)
    \o heading(2, opts.heading_offset) \o StrAssistant \o <<NL, NL>>
    \o UserMessage(req, opts) \o ToolLines(req, opts)
    \o render_response(req.response, opts)

\* fn render_request(out, req, opts)
render_request(req, opts) ==
    heading(2, opts.heading_offset) \o StrUser \o <<NL, NL>>
    \o MetadataLine(req, opts) \o ContextBlock(req, opts)
    \o UserMessage(req, opts) \o ToolLines(req, opts)
    \o heading(2, opts.heading_offset) \o StrAssistant \o <<NL, NL>>
    \o render_response(req.response, opts)

\* fn render_chat(chat, opts), as one value: the title, then every request.
render_chat(c, opts) ==
    heading(1, opts.heading_offset) \o StrCopilotChat \o <<NL, NL>>
    \o Concat([i \in 1..Len(c.requests) |-> render_request(c.requests[i], opts)])

(***************************************************************************)
(* Renderer inputs: chats built from small sets of requests, each with the *)
(* options it is rendered under.                                           *)
(***************************************************************************)
MaxBody == 2

MaxCtx == 2

MaxEdits == 2

MaxRenderReqs == 2

Request(timestamp, model_id, agent_name, context, txt, response) ==
    [timestamp |-> timestamp, model_id |-> model_id, agent_name |-> agent_name,
     context |-> context, message |-> [text |-> txt], response |-> response]

\* A request with a message and a response and nothing else.
Exchange(txt, response) == Request(ZeroTimestamp, NoneS, NoneS, <<>>, txt, response)

Chat(requests) == Ok(<<"G">>, requests)

Text(txt) == RE("Text", txt, NoneS, <<>>, <<>>, NoneS)

InlineReference(name, path) == RE("InlineReference", <<>>, name, path, <<>>, NoneS)

CodeBlockUri(path) == RE("CodeBlockUri", <<>>, NoneS, path, <<>>, NoneS)

TextEditGroup(path, edits) == RE("TextEditGroup", <<>>, NoneS, path, edits, NoneS)

ToolInvocation(past_tense) == RE("ToolInvocation", <<>>, NoneS, <<>>, <<>>, past_tense)

Booleans == {TRUE, FALSE}

\* The heading offsets the command line documents: 0 to 5.
HeadingOffsets == 0..5

\* Timestamps: absent (0), 2024-11-06 05:43:40.288, the same plus 23:59 hours,
\* the millisecond before 1970, and the two ends of the i64 range.
Timestamps ==
    { ZeroTimestamp, [h |-> 403, n |-> 0], [h |-> 403, n |-> 86340000],
      [h |-> 0, n |-> -1], [h |-> 2147483647, n |-> 0], [h |-> -2147483647, n |-> 0] }

S_model == <<"g", "p", "t">>

S_agent == <<"a", "g">>

\* Requests that vary what the metadata line is made of, under every
\* combination of the flags.
MetadataInputs ==
    { <<Chat(<<Request(ts, mid, ag, <<>>, S_hi, <<>>)>>),
        RenderOptions(FALSE, st, sm, sa, TRUE, off)>> :
        ts  \in Timestamps,
        mid \in {NoneS, SomeS(S_model), SomeS(<<>>)},
        ag  \in {NoneS, SomeS(S_agent)},
        st \in Booleans, sm \in Booleans, sa \in Booleans,
        off \in {0} }

S_ranTag == <<"r", "a", "n", " ", "<", "a", ">">>

\* Responses of tool calls with and without a summary, and a text.
ToolElems ==
    { ToolInvocation(SomeS(S_ranTag)), ToolInvocation(SomeS(S_yo)),
      ToolInvocation(NoneS), Text(S_hi) }

ToolInputs ==
    { <<Chat(<<Exchange(S_hi, es)>>), RenderOptions(tools, FALSE, TRUE, TRUE, TRUE, 0)>> :
        es \in SeqsUpTo(ToolElems, MaxBody), tools \in Booleans }

\* Text elements: content, blank texts, texts of fence lines only, and the
\* elements that print nothing.
BodyElems ==
    { Text(S_hi),
      Text(<<"a", NL>>),
      Text(<<>>),
      Text(<<" ", NL, " ">>),
      Text(<<NL, " ">> \o Backticks3 \o <<" ", NL, NL>> \o Backticks3 \o <<NL>>),
      Text(Tildes3),
      Text(Backticks3 \o <<"r", "s">>),
      Text(<<"#", " ", "h", NL>>),
      CodeBlockUri(S_path),
      ToolInvocation(SomeS(S_yo)),
      Other }

BodyInputs ==
    { <<Chat(<<Exchange(S_hi, es)>>), RenderOptions(FALSE, FALSE, TRUE, TRUE, TRUE, off)>> :
        es \in SeqsUpTo(BodyElems, MaxBody), off \in {0, 4} }

\* A text that ends inside a tag and inside a fence, and a text with a heading
\* and a ">".
S_leftOpen == <<"<", "a", NL>> \o Backticks3 \o <<"r", "s">>

S_headingGt == <<"#", " ", "h", ">">>

CarryElems == { Text(S_leftOpen), Text(S_headingGt), Text(S_hi), ToolInvocation(NoneS) }

\* Exchanges whose user message or Text elements leave a fence or a tag open.
CarryInputs ==
    { <<Chat(<<Exchange(msg, es)>>), DefaultOptions>> :
        msg \in {S_leftOpen, S_hi}, es \in SeqsUpTo(CarryElems, MaxBody) }

S_mainRs == <<"m", ".", "r", "s">>

S_quoted == <<Backtick, "c", Backtick>>

\* Paths: none, a file, a directory with a trailing separator, the root,
\* paths that end in ".." or ".", a doubled separator, a name with backquotes.
Paths ==
    { <<>>, S_path, S_mainRs,
      <<"/", "s", "/", "d", "/">>,
      <<"/">>,
      <<"a", "/", ".", ".">>,
      <<"a", "/", ".">>,
      <<".">>,
      <<"a", "/", "/", "b">>,
      <<"/", "s", "/">> \o S_quoted }

ReferenceElems ==
    { InlineReference(name, path) :
        name \in {NoneS, SomeS(S_quoted), SomeS(<<>>)}, path \in Paths }

\* Edit texts: empty, one line, two lines, a closed line, a line ended by
\* "\r\n", blank lines before a line.
EditTextChoices ==
    { <<>>, <<"a">>, <<"a", NL, "b">>, <<"a", NL>>, <<"a", CR, NL, "b">>, <<NL, NL, "b">> }

EditElems ==
    { TextEditGroup(path, edits) :
        path  \in {<<"/", "s", "/">> \o S_quoted, <<>>},
        edits \in SeqsUpTo(EditTextChoices, MaxEdits) }

ElementInputs ==
    { <<Chat(<<Exchange(S_hi, <<Text(S_hi), e, Text(S_yo)>>)>>), DefaultOptions>> :
        e \in ReferenceElems \cup EditElems }

\* Paths of 30 and of 31 bytes, and one of 17 characters in 32 bytes.
S_path30 == <<"/">> \o Repeat("d", 24) \o <<"/", "f", ".", "r", "s">>

S_path31 == <<"/">> \o Repeat("d", 25) \o <<"/", "f", ".", "r", "s">>

S_pathAccents == Repeat(EAcute, 15) \o <<"/", "f">>

File(name, path) == CI("File", name, path, 0, 0)

Selection(name, path, start_line, end_line) ==
    CI("Selection", name, path, start_line, end_line)

Folder(name, path) == CI("Folder", name, path, 0, 0)

Instructions(name) == CI("Instructions", name, <<>>, 0, 0)

\* Attachments of every variant, with short and long paths.
ContextChoices ==
    { File(S_mainRs, S_path),
      File(S_mainRs, <<>>),
      File(<<"f", ".", "r", "s">>, S_path30),
      File(<<"f", ".", "r", "s">>, S_path31),
      File(<<"f">>, S_pathAccents),
      Selection(S_mainRs, S_path, 5, 10),
      Selection(S_mainRs, S_path, 3, 3),
      Folder(<<"s">>, <<"/", "s">>),
      Instructions(<<"r", "u", "l", "e", "s">>) }

ContextInputs ==
    { <<Chat(<<Request(ZeroTimestamp, shown[1], NoneS, items, S_hi, <<>>)>>),
        RenderOptions(FALSE, FALSE, TRUE, TRUE, shown[2], 0)>> :
        items \in SeqsUpTo(ContextChoices, MaxCtx),
        shown \in {<<NoneS, TRUE>>, <<SomeS(S_model), TRUE>>, <<NoneS, FALSE>>} }

\* Three exchanges that differ in every section, for chats of several.
SomeExchanges ==
    { Request([h |-> 403, n |-> 0], SomeS(S_model), NoneS,
              <<File(S_mainRs, S_path)>>,
              <<"#", " ", "T", NL, "<", "b", ">">>,
              <<Text(S_hi), ToolInvocation(SomeS(S_yo))>>),
      Exchange(Backticks3 \o <<NL, "#", "#", " ", "U", "s", "e", "r", NL>> \o Backticks3,
               <<ToolInvocation(NoneS), Text(<<"#", "#", " ", "U", "s", "e", "r", NL>>)>>),
      Exchange(<<>>, <<>>) }

ChatInputs ==
    { <<Chat(rs), RenderOptions(tools, TRUE, TRUE, TRUE, TRUE, off)>> :
        rs \in SeqsUpTo(SomeExchanges, MaxRenderReqs),
        tools \in Booleans, off \in HeadingOffsets }

\* The heading offsets the command line rejects: the first of them, and the
\* ones around the largest u8.
WideOffsets == {6, 253, 254, 255}

WideOffsetInputs ==
    { <<Chat(rs), RenderOptions(FALSE, FALSE, TRUE, TRUE, TRUE, off)>> :
        rs \in SeqsUpTo(SomeExchanges, 1), off \in WideOffsets }

RenderInputs ==
    MetadataInputs \cup ToolInputs \cup BodyInputs \cup ElementInputs
    \cup ContextInputs \cup ChatInputs \cup CarryInputs \cup WideOffsetInputs

\* The builds to tell apart for an input: those with and without overflow
\* checks where a u8 sum of the renderer can overflow, one build elsewhere.
Builds(opts) == IF U8Overflows(2, opts.heading_offset) THEN BOOLEAN ELSE {TRUE}

(***************************************************************************)
(* render_chat as a state machine: the title, then one request after the   *)
(* other, then the return of the buffer.                                   *)
(***************************************************************************)
InitRender ==
    /\ pc = "render"
    /\ doc = InvalidDocument
    /\ \E input \in RenderInputs :
         /\ chat = input[1]
         /\ options = input[2]
    /\ text = NoText
    /\ levels = 0
    /\ shifted = NoText
    /\ escaped = NoText
    /\ out = NoText
    /\ nrendered = 0
    /\ overflow_checks \in Builds(options)
    /\ CliIdle

\* writeln!(out, "{} Copilot Chat\n", heading(1, opts.heading_offset)); the
\* sum 1 + heading_offset of heading panics in a build with overflow checks
\* when it is above u8::MAX, and render_chat returns nothing.
RenderTitle ==
    /\ pc = "render"
    /\ IF overflow_checks /\ U8Overflows(1, options.heading_offset)
       THEN pc' = "panicked" /\ out' = out
       ELSE /\ out' = heading(1, options.heading_offset) \o StrCopilotChat \o <<NL, NL>>
            /\ pc' = "requests"
    /\ UNCHANGED <<doc, chat, text, levels, shifted, escaped, options, nrendered, overflow_checks, cliVars>>

\* One iteration of the loop: render_request(&mut out, request, opts); its
\* first sum, 2 + heading_offset of heading(2, ..), panics in a build with
\* overflow checks when it is above u8::MAX.
RenderRequest ==
    /\ pc = "requests"
    /\ nrendered < Len(chat.requests)
    /\ IF overflow_checks /\ U8Overflows(2, options.heading_offset)
       THEN pc' = "panicked" /\ out' = out /\ nrendered' = nrendered
       ELSE /\ out' = out \o render_request(chat.requests[nrendered + 1], options)
            /\ nrendered' = nrendered + 1
            /\ pc' = pc
    /\ UNCHANGED <<doc, chat, text, levels, shifted, escaped, options, overflow_checks, cliVars>>

\* The loop is over: render_chat returns out.
RenderReturn ==
    /\ pc = "requests"
    /\ nrendered = Len(chat.requests)
    /\ pc' = "rendered"
    /\ UNCHANGED <<doc, chat, text, levels, shifted, escaped, out, options, nrendered, overflow_checks, cliVars>>

NextRender == RenderTitle \/ RenderRequest \/ RenderReturn

SpecRender == InitRender /\ [][NextRender]_vars


(***************************************************************************)
(* Properties of the rendered document.                                    *)
(***************************************************************************)
\* A render has written the title (and the first nrendered exchanges).
Rendering == pc \in {"requests", "rendered"}

\* One exchange laid out as the document does: the User heading, the four
\* parts of the User section, the Assistant heading, the response body.
Section(hd, meta, ctx, msg, tools, resp) ==
    hd \o StrUser \o <<NL, NL>> \o meta \o ctx \o msg \o tools
    \o hd \o StrAssistant \o <<NL, NL>> \o resp

\* A document: a title line, then the text E gives for each exchange rendered
\* so far, in the order of chat.requests.
Rendered(title, E(_)) ==
    title \o StrCopilotChat \o <<NL, NL>>
    \o Concat([i \in 1..nrendered |-> E(chat.requests[i])])

\* The depth of a heading of the given base level.
Depth(base) == IF base + options.heading_offset < 6 THEN base + options.heading_offset ELSE 6

\* C12: for every heading_offset in 0..5 the title line has exactly
\* min(1 + heading_offset, 6) "#" and every User and Assistant heading exactly
\* min(2 + heading_offset, 6); the depth is never 0 and never above 6.
C12_HeadingDepth ==
    (Rendering /\ options.heading_offset \in 0..5) =>
        /\ Depth(1) \in 1..6
        /\ Depth(2) \in 1..6
        /\ out = Rendered(Repeat("#", Depth(1)),
                          LAMBDA r : Section(Repeat("#", Depth(2)),
                                             MetadataLine(r, options),
                                             ContextBlock(r, options),
                                             UserMessage(r, options),
                                             ToolLines(r, options),
                                             render_response(r.response, options)))

\* C12 witness: two exchanges rendered at offset 5, title and sections at the
\* cap of six.
C12_Witness ==
    /\ pc = "rendered"
    /\ options.heading_offset = 5
    /\ nrendered = 2
    /\ StartsWith(out, Hashes6 \o StrCopilotChat \o <<NL, NL>> \o Hashes6 \o StrUser)

\* What render_request appends for a request, by the parts of the document.
SectionOf(r) ==
    Section(heading(2, options.heading_offset),
            MetadataLine(r, options), ContextBlock(r, options),
            UserMessage(r, options), ToolLines(r, options),
            render_response(r.response, options))

\* C13: the title is written once, first, to the empty buffer; then each step
\* appends the output of the next exchange in the order of the sequence, made
\* of one User heading, the User section, one Assistant heading and the
\* response body; what was written before is never changed, and the buffer
\* is returned once all n exchanges are written.
C13_DocumentOrder ==
    [][ pc' # "panicked" =>
        /\ chat' = chat
        /\ pc = "render" =>
             /\ out = <<>> /\ nrendered' = 0 /\ pc' = "requests"
             /\ out' = heading(1, options.heading_offset) \o StrCopilotChat \o <<NL, NL>>
        /\ (pc = "requests" /\ pc' = "requests") =>
             /\ nrendered < Len(chat.requests)
             /\ nrendered' = nrendered + 1
             /\ out' = out \o SectionOf(chat.requests[nrendered'])
        /\ (pc = "requests" /\ pc' = "rendered") =>
             /\ nrendered = Len(chat.requests)
             /\ out' = out
      ]_vars

\* C13 witness: a chat of two different exchanges, both rendered.
C13_Witness ==
    /\ pc = "rendered"
    /\ nrendered = 2
    /\ chat.requests[1] # chat.requests[2]
    /\ out = Rendered(heading(1, options.heading_offset), SectionOf)

\* The metadata line as the parts present, in the order timestamp, model,
\* agent.
MetadataOf(r) ==
    LET parts ==
            (IF options.show_timestamps /\ InRange(r.timestamp)
             THEN <<FormatTimestamp(r.timestamp)>> ELSE <<>>)
            \o (IF options.show_model /\ r.model_id.some THEN <<r.model_id.v>> ELSE <<>>)
            \o (IF options.show_agent /\ r.agent_name.some
                THEN <<<<"@">> \o r.agent_name.v>> ELSE <<>>)
    IN  IF parts = <<>> THEN <<>>
        ELSE <<"*">> \o Join(parts, <<" ", MiddleDot, " ">>) \o <<"*", NL, NL>>

\* C14: the metadata line is made of the formatted timestamp (if
\* show_timestamps and the timestamp is in range), the model id (if show_model
\* and present) and "@" with the agent name (if show_agent and present), in
\* this order, joined by a middle dot between spaces and wrapped in "*"; it
\* comes directly after the User heading and is left out exactly when no part
\* is present.
C14_MetadataLine ==
    Rendering =>
        out = Rendered(heading(1, options.heading_offset),
                       LAMBDA r : Section(heading(2, options.heading_offset),
                                          MetadataOf(r),
                                          ContextBlock(r, options),
                                          UserMessage(r, options),
                                          ToolLines(r, options),
                                          render_response(r.response, options)))

S_metadataAll ==
    <<"*", "2", "0", "2", "4", "-", "1", "1", "-", "0", "7", " ", "0", "5", ":", "4", "2",
      " ", "U", "T", "C", " ", MiddleDot, " ", "g", "p", "t", " ", MiddleDot, " ",
      "@", "a", "g", "*", NL, NL>>

\* C14 witness: a request with all three parts shown, directly after the
\* User heading.
C14_Witness ==
    /\ pc = "rendered"
    /\ nrendered = 1
    /\ options.show_timestamps /\ options.show_model /\ options.show_agent
    /\ chat.requests[1].timestamp = [h |-> 403, n |-> 86340000]
    /\ Contains(out, StrUser \o <<NL, NL>> \o S_metadataAll)


\* The document with the tool lines and the response body given by T and B
\* and every other part as the renderer writes it.
RenderedWith(M(_), C(_), T(_), B(_)) ==
    Rendered(heading(1, options.heading_offset),
             LAMBDA r : Section(heading(2, options.heading_offset),
                                M(r), C(r), UserMessage(r, options), T(r), B(r)))

MetadataLineOf(r) == MetadataLine(r, options)

ContextBlockOf(r) == ContextBlock(r, options)

ToolLinesOf(r) == ToolLines(r, options)

ResponseOfRequest(r) == render_response(r.response, options)

IsToolCall(e) == e.variant = "ToolInvocation"

HasSummary(e) == e.variant = "ToolInvocation" /\ e.past_tense.some

\* The tool lines of a request: one per tool call with a summary, in order,
\* and one blank line after them when there is any.
ToolLinesExpected(r) ==
    LET calls == SelectSeq(r.response, HasSummary)
    IN  IF ~options.show_tools \/ calls = <<>> THEN <<>>
        ELSE Concat([k \in 1..Len(calls) |->
                        <<">", " ", Wrench, " ">>
                        \o escape_xml_tags(calls[k].past_tense.v) \o <<NL>>])
             \o <<NL>>

\* The response body of a request with its tool calls taken out.
BodyWithoutToolCalls(r) ==
    render_response(SelectSeq(r.response, LAMBDA e : ~IsToolCall(e)), options)

\* C15: with show_tools false no tool line is written; with show_tools true
\* exactly the tool calls with a summary give one blockquoted line each, in
\* their order, after the user message and before the Assistant heading of
\* the same exchange; one blank line follows them if and only if there is at
\* least one; a tool call adds nothing to the response body.
C15_ToolLines ==
    Rendering =>
        out = RenderedWith(MetadataLineOf, ContextBlockOf,
                           ToolLinesExpected, BodyWithoutToolCalls)

\* C15 witness: a tool call without summary before one with a summary,
\* rendered with show_tools: one tool line and the blank line.
C15_Witness ==
    /\ pc = "rendered"
    /\ nrendered = 1
    /\ options.show_tools
    /\ chat.requests[1].response = <<ToolInvocation(NoneS), ToolInvocation(SomeS(S_ranTag))>>
    /\ Contains(out, S_hi \o <<NL, NL, ">", " ", Wrench, " ", "r", "a", "n", " ">>
                     \o EntityLt \o <<"a">> \o EntityGt \o <<NL, NL, "#", "#", " ", "A">>)

\* The levels by which the renderer shifts the headings of a text.
ContentShift == U8Add(2, options.heading_offset)

\* Every line of a text, trimmed, is empty or satisfies P.
OnlyLines(txt, P(_)) ==
    \A i \in 1..Len(lines(txt)) : trim(lines(txt)[i]) = <<>> \/ P(lines(txt)[i])

\* What each element adds to the response body, with S telling which Text
\* elements are skipped.
BodyExpected(r, S(_)) ==
    Concat([k \in 1..Len(r.response) |->
               LET e == r.response[k] IN
               CASE e.variant = "Text" ->
                      IF S(e.text) THEN <<>>
                      ELSE escape_xml_tags(shift_headings(e.text, ContentShift))
                 [] e.variant = "InlineReference" -> InlineReferenceOutput(e)
                 [] e.variant = "TextEditGroup" /\ e.edits # <<>> -> TextEditGroupOutput(e)
                 [] OTHER -> <<>>])
    \o <<NL, NL>>

\* A text that is empty after trimming or made only of blank lines and of
\* lines that open or close a fence (three backquotes or three tildes at the
\* start of the trimmed line).
OnlyFenceDelimiters(txt) == OnlyLines(trim(txt), IsFenceLine)

\* A text that is empty after trimming or made only of blank lines and of
\* lines that are, trimmed, exactly three backquotes.
OnlyBareFences(txt) == OnlyLines(trim(txt), LAMBDA l : trim(l) = Backticks3)

BodySkippingFenceDelimiters(r) == BodyExpected(r, OnlyFenceDelimiters)

BodySkippingBareFences(r) == BodyExpected(r, OnlyBareFences)

BodyWithVariant(r, variant, X(_)) ==
    Concat([k \in 1..Len(r.response) |->
               IF r.response[k].variant = variant THEN X(r.response[k])
               ELSE ElementOutput(r.response[k], options)])
    \o <<NL, NL>>

\* A text with every backquote replaced by a single quote.
SingleQuoted(txt) == [i \in 1..Len(txt) |-> IF txt[i] = Backtick THEN "'" ELSE txt[i]]

\* An inline code span.
CodeSpan(txt) == <<Backtick>> \o SingleQuoted(txt) \o <<Backtick>>

\* The text after the last "/" of a path (all of it when there is none).
AfterLastSeparator(path) == SplitOn(path, "/")[Len(SplitOn(path, "/"))]

\* The displayed text as stated: the name, else the text after the last
\* separator of a non-empty path, else the raw path.
DisplayAsStated(e) ==
    IF e.name.some THEN e.name.v
    ELSE IF e.path # <<>> THEN AfterLastSeparator(e.path)
    ELSE e.path

\* The displayed text: the name, else the file name of the path (its last
\* component, not counting trailing separators and "." components), else,
\* when the path has no file name (it is empty, has separators only, or
\* ends in ".."), the raw path.
DisplayByFileName(e) ==
    IF e.name.some THEN e.name.v
    ELSE IF file_name(e.path).some THEN file_name(e.path).v
    ELSE e.path

BodyWithStatedReferences(r) ==
    BodyWithVariant(r, "InlineReference", LAMBDA e : CodeSpan(DisplayAsStated(e)))

BodyWithFileNameReferences(r) ==
    BodyWithVariant(r, "InlineReference", LAMBDA e : CodeSpan(DisplayByFileName(e)))

\* C17 as stated: an InlineReference is one inline code span of the display
\* name if present, otherwise of the text after the last path separator if
\* the path is non-empty, otherwise of the raw path, with every backquote
\* replaced by a single quote.
C17_InlineReferenceAfterSeparator ==
    Rendering =>
        out = RenderedWith(MetadataLineOf, ContextBlockOf, ToolLinesOf,
                           BodyWithStatedReferences)

\* C17 amended: an InlineReference is one inline code span of the display
\* name if present, otherwise of the file name of the path (its last
\* component, not counting trailing separators and "." components),
\* otherwise, when the path has no file name, of the raw path; every
\* backquote of the displayed text is replaced by a single quote, so the
\* span holds no backquote.
C17_InlineReference ==
    Rendering =>
        /\ out = RenderedWith(MetadataLineOf, ContextBlockOf, ToolLinesOf,
                              BodyWithFileNameReferences)
        /\ \A i \in 1..nrendered :
             \A k \in 1..Len(chat.requests[i].response) :
                LET e == chat.requests[i].response[k]
                    span == CodeSpan(DisplayByFileName(e))
                IN  e.variant = "InlineReference" =>
                       \A j \in 2..(Len(span) - 1) : span[j] # Backtick

\* C17 witness: a reference without a name to a file whose name has
\* backquotes, between two texts.
C17_Witness ==
    /\ pc = "rendered"
    /\ nrendered = 1
    /\ Len(chat.requests[1].response) = 3
    /\ chat.requests[1].response[2] = InlineReference(NoneS, <<"/", "s", "/">> \o S_quoted)
    /\ Contains(out, S_hi \o <<Backtick, "'", "c", "'", Backtick>> \o S_yo \o <<NL, NL>>)

\* The number of newline-delimited lines of a text: none in the empty text,
\* else one per newline and one more for an unterminated last line.
LinesIn(txt) ==
    IF txt = <<>> THEN 0
    ELSE Cardinality({i \in 1..Len(txt) : txt[i] = NL})
         + (IF txt[Len(txt)] = NL THEN 0 ELSE 1)

RECURSIVE TotalLines(_)
TotalLines(edits) ==
    IF edits = <<>> THEN 0 ELSE LinesIn(Head(edits)) + TotalLines(Tail(edits))

\* The summary line of an edit group; nothing for an empty edit list.
EditSummaryExpected(e) ==
    IF e.edits = <<>> THEN <<>>
    ELSE <<NL, "*", "M", "o", "d", "i", "f", "i", "e", "d", " ">>
         \o CodeSpan(UnwrapOr(file_name(e.path), e.path))
         \o <<" ", "(">> \o ToDecimal(TotalLines(e.edits))
         \o <<" ", "l", "i", "n", "e", "s", ")", "*", NL, NL>>

BodyWithEditSummaries(r) == BodyWithVariant(r, "TextEditGroup", EditSummaryExpected)

SuffixOf(item) ==
    CASE item.variant = "File" -> SuffixFile
      [] item.variant = "Selection" -> SuffixSelection
      [] item.variant = "Folder" -> SuffixFolder
      [] item.variant = "Instructions" -> SuffixInstructions

\* The line range of a Selection: ":start" or ":start-end".
RangeOf(item) ==
    IF item.variant # "Selection" THEN <<>>
    ELSE IF item.start_line = item.end_line THEN <<":">> \o ToDecimal(item.start_line)
    ELSE <<":">> \o ToDecimal(item.start_line) \o <<"-">> \o ToDecimal(item.end_line)

\* The attachments block of a request, with D giving the display of the name
\* of each attachment: written only with show_context and a non-empty list,
\* one list line per attachment in the order of the list.
ContextExpected(r, D(_)) ==
    IF ~options.show_context \/ r.context = <<>> THEN <<>>
    ELSE StrDetailsOpen \o StrSummary
         \o Concat([k \in 1..Len(r.context) |->
                       <<"-", " ">> \o D(r.context[k]) \o RangeOf(r.context[k])
                       \o SuffixOf(r.context[k]) \o <<NL>>])
         \o StrDetailsClose

PlainName(item) == <<Backtick>> \o item.name \o <<Backtick>>

LinkedName(item) ==
    <<"[", Backtick>> \o item.name \o <<Backtick, "]", "(">> \o item.path
    \o <<" ", "\"">> \o item.path \o <<"\"", ")">>

\* The display of an attachment's name as the renderer truncates paths.
DisplayOf(item) ==
    IF item.variant = "Instructions" THEN PlainName(item)
    ELSE format_path_display(item.name, item.path)

ContextAsListed(r) == ContextExpected(r, DisplayOf)

\* C19: the attachments block of an exchange is written if and only if
\* show_context is true and the attachment list is not empty; it lies between
\* the metadata line and the user message and has one list line per
\* attachment, in the order of the list, ending in (file), (selection),
\* (folder) or (instructions) by the variant; a Selection shows ":start" when
\* start = end and ":start-end" otherwise.
C19_AttachmentsBlock ==
    Rendering =>
        out = RenderedWith(MetadataLineOf, ContextAsListed, ToolLinesOf, ResponseOfRequest)

\* C19 witness: a one-line selection and a selection of several lines, listed
\* in this order between the metadata line and the user message.
C19_Witness ==
    /\ pc = "rendered"
    /\ nrendered = 1
    /\ options.show_context
    /\ chat.requests[1].context =
           <<Selection(S_mainRs, S_path, 3, 3), Selection(S_mainRs, S_path, 5, 10)>>
    /\ Contains(out, <<"*", "g", "p", "t", "*", NL, NL>> \o StrDetailsOpen \o StrSummary
                     \o <<"-", " ", Backtick>> \o S_mainRs \o <<Backtick, ":", "3">>
                     \o SuffixSelection
                     \o <<NL, "-", " ", Backtick>> \o S_mainRs
                     \o <<Backtick, ":", "5", "-", "1", "0">> \o SuffixSelection \o <<NL>>
                     \o StrDetailsClose \o S_hi \o <<NL, NL>>)

\* The display of an attachment's name by the length of its path in
\* characters: plain inline code for an empty path or one of at most 30
\* characters, a link to the full path otherwise; always plain for
\* Instructions.
DisplayByCharacters(item) ==
    IF item.variant = "Instructions" THEN PlainName(item)
    ELSE IF item.path = <<>> \/ Len(item.path) <= MAX_INLINE_PATH_LEN THEN PlainName(item)
    ELSE LinkedName(item)

ContextByCharacters(r) == ContextExpected(r, DisplayByCharacters)

\* C20: a File, Selection or Folder attachment shows its name as plain inline
\* code exactly when its path is empty or at most 30 characters long, and
\* otherwise as a link whose target and hover title are both the full path;
\* an Instructions attachment is always plain inline code.
C20_PathTruncation ==
    Rendering =>
        out = RenderedWith(MetadataLineOf, ContextByCharacters, ToolLinesOf,
                           ResponseOfRequest)

(***************************************************************************)
(* Escaping twice.                                                         *)
(***************************************************************************)
\* A "<" directly followed by a letter, "/" or "!" somewhere in s.
HasTagOpening(s) ==
    \E i \in 1..(Len(s) - 1) : s[i] = "<" /\ s[i + 1] \in TagOpeners

\* What a second call of escape_xml_tags makes of the escaped text.
SecondPass == escape_xml_tags(escaped)

\* C25: escaping is idempotent: the escaped text has no "<" followed by a
\* letter, "/" or "!", and escaping it once more returns it unchanged, so
\* escape_xml_tags(escape_xml_tags(x)) = escape_xml_tags(x).
C25_EscapeIdempotent ==
    pc \in {"user", "tool"} =>
        /\ ~HasTagOpening(escaped)
        /\ SecondPass = escaped

\* C25 witness: the first pass escaped a tag and kept a "<" that opens none,
\* and the second pass had both "<" and ">" to look at.
C25_Witness ==
    /\ pc = "tool"
    /\ HasTagOpening(text)
    /\ escaped # text
    /\ Contains(escaped, <<"<">>)
    /\ Contains(escaped, <<">">>)
    /\ SecondPass = escaped

(***************************************************************************)
(* The fence flag and the tag flag of one call.                            *)
(***************************************************************************)
\* A text with its headings shifted by lv according to its own fence lines:
\* a heading line with an even number of fence lines before it in this text.
ShiftedAlone(txt, lv) ==
    LET ls == lines(txt) IN
    IF lv = 0 THEN txt ELSE
    Join([i \in 1..Len(ls) |->
             IF OutsideFence(ls, i) /\ IsHeadingLine(ls[i])
             THEN Repeat("#", Min2(HashCount(ls[i]) + lv, 6))
                  \o SubSeq(ls[i], HashCount(ls[i]) + 1, Len(ls[i]))
             ELSE ls[i]], <<NL>>)

\* A text escaped according to its own "<" alone.
EscapedAlone(s) ==
    Concat([i \in 1..Len(s) |->
               IF LtEscaped(s, i) THEN EntityLt
               ELSE IF GtEscaped(s, i) THEN EntityGt
               ELSE <<s[i]>>])

\* What a Text element adds when nothing of the texts before it counts.
TextAlone(e) ==
    IF OnlyBareFences(e.text) THEN <<>>
    ELSE EscapedAlone(ShiftedAlone(e.text, ContentShift))

BodyOfTextsAlone(r) == BodyWithVariant(r, "Text", TextAlone)

\* The fence lines of a text are odd in number: it ends inside a fence.
EndsInFence(txt) ==
    Cardinality({k \in 1..Len(lines(txt)) : IsFenceLine(lines(txt)[k])}) % 2 = 1

\* C26: fence tracking and tag tracking are per call: every Text element is
\* shifted and escaped according to its own fence lines and its own "<"
\* alone, whatever fence or tag the user message or an earlier Text element
\* of the same response left open.
C26_StatePerCall ==
    Rendering =>
        out = RenderedWith(MetadataLineOf, ContextBlockOf, ToolLinesOf, BodyOfTextsAlone)

\* C26 witness: the user message and the first Text element end inside a
\* fence and inside a tag; the heading of the second Text element is shifted
\* and its ">" is left as it is.
C26_Witness ==
    /\ pc = "rendered"
    /\ nrendered = 1
    /\ EndsInFence(chat.requests[1].message.text)
    /\ chat.requests[1].response = <<Text(S_leftOpen), Text(S_headingGt)>>
    /\ EndsInFence(S_leftOpen)
    /\ Contains(out, Backticks3 \o <<"r", "s", "#", "#", "#", " ", "h", ">", NL, NL>>)

(***************************************************************************)
(* Line numbers wider than 32 bits.                                        *)
(***************************************************************************)
\* A JSON number that as_u64 accepts: an integer that is not negative.
IsUnsigned(g) == g.some /\ (g.v.t = "big" \/ (g.v.t = "int" /\ g.v.h >= 0 /\ g.v.n >= 0))

\* A number h * 2^32 + n with 0 <= n < 2^32, reduced modulo 2^32.
Mod2_32(v) == v.n

LineNo(var, key) == Navigate(var, <<"value", "range", key>>)

\* A line number that does not fit 32 bits.
IsWideLineNo(var, key) ==
    IsUnsigned(LineNo(var, key))
    /\ (LineNo(var, key).v.t = "big" \/ LineNo(var, key).v.h > 0)

ReducedStart(var) ==
    IF IsUnsigned(LineNo(var, "startLineNumber"))
    THEN Mod2_32(LineNo(var, "startLineNumber").v) ELSE 1

ReducedEnd(var) ==
    IF IsUnsigned(LineNo(var, "endLineNumber"))
    THEN Mod2_32(LineNo(var, "endLineNumber").v) ELSE ReducedStart(var)

\* C29: the line numbers of a Selection are the 64-bit JSON values reduced
\* modulo 2^32 (start 1 when absent or no unsigned integer, end the reduced
\* start when absent), and the test start # end or start > 1 is made on the
\* reduced values: a range is classified as the small reduced range is.
C29_LineNumbersReduced ==
    (pc = "parsed" /\ chat.ok) =>
        \A p \in AttachmentPairs :
            (IsFileVar(p[1]) /\ Navigate(p[1], <<"value", "range">>).some) =>
                /\ p[2].variant = "Selection"
                      <=> (IdHasSelection(p[1]) \/ ReducedStart(p[1]) # ReducedEnd(p[1])
                           \/ ReducedStart(p[1]) > 1)
                /\ p[2].variant = "Selection"
                      => /\ p[2].start_line = ReducedStart(p[1])
                         /\ p[2].end_line = ReducedEnd(p[1])

\* C29 witness: the range 2^32 + 1 .. 2 * 2^32 + 1 decoded as a File, like
\* 1..1, next to the range 2 .. 2^32 + 2 decoded as the Selection 2..2.
C29_Witness ==
    /\ pc = "parsed"
    /\ chat.ok
    /\ \E p, q \in AttachmentPairs :
         /\ IsWideLineNo(p[1], "startLineNumber") /\ IsWideLineNo(p[1], "endLineNumber")
         /\ LineNo(p[1], "startLineNumber").v.h # LineNo(p[1], "endLineNumber").v.h
         /\ p[2].variant = "File"
         /\ IsWideLineNo(q[1], "endLineNumber")
         /\ q[2].variant = "Selection" /\ q[2].start_line = 2 /\ q[2].end_line = 2

(***************************************************************************)
(* Heading offsets the command line does not let through.                  *)
(***************************************************************************)
\* The number of "#" a heading of the given base level has when the sum of
\* base and offset is taken without overflow or wrap.
DepthNoWrap(base) == Min2(base + options.heading_offset, 6)

\* C30: for every heading_offset in 0..255 render_chat completes without
\* failing, and the title, User and Assistant headings have between 1 and 6
\* "#": the 8-bit sums 1 + heading_offset and 2 + heading_offset never
\* overflow or wrap.
C30_AnyOffsetRenders ==
    /\ pc # "panicked"
    /\ Rendering =>
         /\ DepthNoWrap(1) \in 1..6
         /\ DepthNoWrap(2) \in 1..6
         /\ out = Rendered(Repeat("#", DepthNoWrap(1)),
                           LAMBDA r : Section(Repeat("#", DepthNoWrap(2)),
                                              MetadataLine(r, options),
                                              ContextBlock(r, options),
                                              UserMessage(r, options),
                                              ToolLines(r, options),
                                              render_response(r.response, options)))

(***************************************************************************)
(* main.rs: paths.  A path is the sequence of its components, each a       *)
(* sequence of characters; two paths are equal when their components are,  *)
(* as PathBuf compares them.                                               *)
(***************************************************************************)
\* The bytes of the characters that file names are made of, in byte order.
ByteOrder == <<".", "a", "b", "c", "d", "e", "g", "h", "i", "j", "l", "m", "n", "o", "s", "t", "u", "x">>

Code(c) == CHOOSE i \in 1..Len(ByteOrder) : ByteOrder[i] = c

\* OsStr::cmp: the order of the bytes, a prefix before what it is a prefix of.
RECURSIVE NameLess(_, _)
NameLess(a, b) ==
    IF b = <<>> THEN FALSE
    ELSE IF a = <<>> THEN TRUE
    ELSE IF Head(a) # Head(b) THEN Code(Head(a)) < Code(Head(b))
    ELSE NameLess(Tail(a), Tail(b))

\* Path::file_name of a path with no ".." in it
FileName(path) == IF path = <<>> THEN NoneS ELSE SomeS(path[Len(path)])

\* The place of the last "." of a file name, 0 when it has none.
LastDot(name) == SetMax({0} \cup {i \in 1..Len(name) : name[i] = "."})

\* Path::file_stem: the file name up to its last ".", the whole name when it
\* has no "." or only one at its start.
file_stem(path) ==
    LET name == FileName(path).v
    IN  IF ~FileName(path).some THEN NoneS
        ELSE IF LastDot(name) <= 1 THEN SomeS(name)
        ELSE SomeS(SubSeq(name, 1, LastDot(name) - 1))

\* Path::extension: the file name after its last ".", none when it has no
\* "." or only one at its start.
extension(path) ==
    LET name == FileName(path).v
    IN  IF ~FileName(path).some \/ LastDot(name) <= 1 THEN NoneS
        ELSE SomeS(SubSeq(name, LastDot(name) + 1, Len(name)))

\* Path::join of a directory and a file name
join(dir, name) == Append(dir, name)

\* Path::parent
parent(path) == IF path = <<>> THEN NoneS ELSE SomeS(SubSeq(path, 1, Len(path) - 1))

StrJson == <<"j", "s", "o", "n">>

StrDotMd == <<".", "m", "d">>

(***************************************************************************)
(* The input side of the file system: a tree that the run only reads.      *)
(***************************************************************************)
N_in == <<"i", "n">>

N_sub == <<"s", "u", "b">>

N_no == <<"n", "o">>

N_aJson == <<"a", ".", "j", "s", "o", "n">>

N_bTxt == <<"b", ".", "t", "x", "t">>

N_cJson == <<"c", ".", "j", "s", "o", "n">>

N_dotJson == <<".", "j", "s", "o", "n">>

N_gone == <<"g", "o", "n", "e">>

\* A chat export with one request whose message is txt.
ExportOf(txt) ==
    Document(JObj(<<Responder,
                    Mem("requests", JArr(<<JObj(<<Mem("message",
                                                      JObj(<<Mem("text", JStr(txt))>>))>>)>>))>>))

Entry(path, kind, content) == [path |-> path, kind |-> kind, content |-> content]

\* The tree: a directory "in" with two exports, a text file that holds an
\* export, a file that is no JSON, a hidden file and a subdirectory with an
\* export named like one above it; and a directory "no" that cannot be
\* listed.  Nothing else exists.
Tree ==
    { Entry(<<N_in>>, "dir", InvalidDocument),
      Entry(<<N_in, N_aJson>>, "file", ExportOf(S_hi)),
      Entry(<<N_in, N_bTxt>>, "file", ExportOf(<<"b">>)),
      Entry(<<N_in, N_cJson>>, "file", InvalidDocument),
      Entry(<<N_in, N_dotJson>>, "file", ExportOf(S_hi)),
      Entry(<<N_in, N_sub>>, "dir", InvalidDocument),
      Entry(<<N_in, N_sub, N_aJson>>, "file", ExportOf(S_yo)),
      Entry(<<N_no>>, "denied", InvalidDocument) }

Exists(path) == \E e \in Tree : e.path = path

EntryAt(path) == CHOOSE e \in Tree : e.path = path

\* Path::is_dir
is_dir(path) == Exists(path) /\ EntryAt(path).kind \in {"dir", "denied"}

\* std::fs::read_to_string: the content of a file, an error for what is
\* missing or no file.
read_to_string(path) ==
    IF Exists(path) /\ EntryAt(path).kind = "file"
    THEN [ok |-> TRUE, content |-> EntryAt(path).content]
    ELSE [ok |-> FALSE, content |-> InvalidDocument]

\* The names in a directory.
NamesIn(dir) == { e.path[Len(e.path)] : e \in {x \in Tree : parent(x.path) = SomeS(dir)} }

\* A variant of SortedNames that puts the greatest name first.
RECURSIVE SortedNames_Descending(_)
SortedNames_Descending(names) ==
    IF names = {} THEN <<>>
    ELSE LET first == CHOOSE n \in names : \A m \in names \ {n} : NameLess(m, n)
         IN  <<first>> \o SortedNames_Descending(names \ {first})

\* A set of names as the sequence sort_by_file_name puts them in.
RECURSIVE SortedNames(_)
SortedNames(names) ==
    IF names = {} THEN <<>>
    ELSE LET first == CHOOSE n \in names : \A m \in names \ {n} : NameLess(n, m)
         IN  <<first>> \o SortedNames(names \ {first})

\* Result<DirEntry, walkdir::Error>
WalkOk(path) == [ok |-> TRUE, path |-> path]

WalkErr(path) == [ok |-> FALSE, path |-> path]

\* WalkDir::new(root).sort_by_file_name(): the root, then under every
\* directory its entries by name, each followed by what is under it; a
\* directory that cannot be listed gives an error after its own entry.
RECURSIVE WalkDir(_)
WalkDir(root) ==
    IF ~Exists(root) THEN <<WalkErr(root)>>
    ELSE IF EntryAt(root).kind = "file" THEN <<WalkOk(root)>>
    ELSE IF EntryAt(root).kind = "denied" THEN <<WalkOk(root), WalkErr(root)>>
    ELSE LET names == SortedNames(NamesIn(root))
         IN  <<WalkOk(root)>>
             \o Concat([i \in 1..Len(names) |-> WalkDir(join(root, names[i]))])


(***************************************************************************)
(* main.rs: collect_input_files.                                           *)
(***************************************************************************)
\* Result<Vec<PathBuf>, Error> of collect_input_files, with the seen set of
\* the loop.
Collected(ok, fs, seen) == [ok |-> ok, files |-> fs, seen |-> seen]

KeepsEntry_Any(path) == TRUE

\* entry.path().extension().is_some_and(|ext| ext == "json")   (main.rs 280)
KeepsEntry(path) == extension(path) = SomeS(StrJson)

\* The loop over the entries of one directory input (main.rs 275-286).
RECURSIVE EntriesLoop(_, _, _)
EntriesLoop(entries, fs, seen) ==
    IF entries = <<>> THEN Collected(TRUE, fs, seen)
    ELSE LET entry == Head(entries)
         IN  IF ~entry.ok THEN Collected(FALSE, <<>>, {})
             ELSE IF KeepsEntry(entry.path) /\ entry.path \notin seen
             THEN EntriesLoop(Tail(entries), Append(fs, entry.path), seen \cup {entry.path})
             ELSE EntriesLoop(Tail(entries), fs, seen)

\* The loop over the inputs (main.rs 273-290).
RECURSIVE CollectLoop(_, _, _)
CollectLoop(inputs, fs, seen) ==
    IF inputs = <<>> THEN Collected(TRUE, fs, seen)
    ELSE LET input == Head(inputs)
         IN  IF is_dir(input)
             THEN LET r == EntriesLoop(WalkDir(input), fs, seen)
                  IN  IF r.ok THEN CollectLoop(Tail(inputs), r.files, r.seen) ELSE r
             ELSE IF input \notin seen
             THEN CollectLoop(Tail(inputs), Append(fs, input), seen \cup {input})
             ELSE CollectLoop(Tail(inputs), fs, seen)

\* fn collect_input_files(inputs)
collect_input_files(inputs) == CollectLoop(inputs, <<>>, {})


(***************************************************************************)
(* main.rs: the run of the command after parse_args.  The output side of   *)
(* the file system is disk (files) and dirs (directories); nothing but the *)
(* run writes to it.                                                       *)
(***************************************************************************)
MaxInputs == 2

N_d == <<"d">>

N_out == <<"o", "u", "t">>

N_aMd == <<"a", ".", "m", "d">>

\* The value of --output when it is a path.
P_out == <<N_d, N_out>>

S_old == <<"o", "l", "d">>

\* What the run is given as inputs: directories, files with and without the
\* extension json, a directory that cannot be listed, a path that is missing.
InputArgs ==
    { <<N_in>>, <<N_in, N_sub>>, <<N_in, N_aJson>>, <<N_in, N_bTxt>>, <<N_no>>, <<N_gone>> }

\* parse_args 207-211: with --concat the path of --output names a file.
ResolveOutput(concat, target) ==
    IF concat /\ target.kind = "Directory" THEN OutputTarget_File(target.path) ELSE target

\* A line on standard error: what it reports and the path it names.
Msg(kind, path) == [kind |-> kind, path |-> path]

\* The directories create_dir_all makes sure of: the path and those above it.
Ancestors(path) == { SubSeq(path, 1, k) : k \in 1..Len(path) }

\* Path::exists, of a path under the output target
exists(path) == path \in DOMAIN disk \/ path \in dirs

\* fn make_render_options(cli)
make_render_options(c) == c.render

\* fn load_chat(path): read_to_string, then parse_chat.
load_chat(path) ==
    LET json == read_to_string(path)
    IN  IF ~json.ok THEN [ok |-> FALSE, error |-> "ReadFile", chat |-> Err]
        ELSE IF ~parse_chat(json.content).ok
        THEN [ok |-> FALSE, error |-> "ParseFile", chat |-> Err]
        ELSE [ok |-> TRUE, error |-> "", chat |-> parse_chat(json.content)]

\* "\n---\n\n"   (main.rs 337)
StrSeparator == <<NL, "-", "-", "-", NL, NL>>

\* The state in which main starts: a command line as parse_args returns it,
\* and an output target with or without something at the path it will write.
InitCli ==
    /\ pc = "main"
    /\ \E input \in SeqsUpTo(InputArgs, MaxInputs), concat, dry_run, force \in BOOLEAN,
          target \in {OutputTarget_Stdout, OutputTarget_Directory(P_out)} :
         cli = Cli(input, ResolveOutput(concat, target), concat, DefaultOptions,
                   FALSE, dry_run, force)
    /\ \E present \in (IF cli.output.kind = "Stdout" THEN {FALSE} ELSE BOOLEAN) :
         /\ dirs = IF ~present THEN {}
                   ELSE IF cli.output.kind = "Directory" THEN Ancestors(P_out)
                   ELSE {<<N_d>>}
         /\ disk = IF ~present THEN <<>>
                   ELSE IF cli.output.kind = "Directory" THEN (join(P_out, N_aMd) :> S_old)
                   ELSE (P_out :> S_old)
    /\ files = <<>>
    /\ processed = 0
    /\ output = NoText
    /\ stdout = NoText
    /\ stderr = <<>>
    /\ doc = InvalidDocument
    /\ chat = Err
    /\ text = NoText
    /\ levels = 0
    /\ shifted = NoText
    /\ escaped = NoText
    /\ out = NoText
    /\ options = DefaultOptions
    /\ nrendered = 0
    /\ overflow_checks = TRUE

\* main returns Err(error): the error is printed and the run is over.
Fails(error, path) ==
    /\ pc' = "failed"
    /\ stderr' = Append(stderr, Msg(error, path))

\* main 232-258: the inputs are collected and the mode is chosen.
CollectInputs ==
    /\ pc = "main"
    /\ LET r == collect_input_files(cli.input)
       IN  IF cli.input = <<>> THEN Fails("NoInputFiles", <<>>) /\ files' = files
           ELSE IF ~r.ok THEN Fails("ListInputs", <<>>) /\ files' = files
           ELSE /\ files' = r.files
                /\ stderr' = stderr
                /\ pc' = IF cli.concat THEN "concat"
                         ELSE IF cli.output.kind = "Stdout" THEN "stdout"
                         ELSE IF cli.output.kind = "Directory" THEN "directory"
                         ELSE "failed"
    /\ UNCHANGED <<libVars, cli, processed, output, disk, dirs, stdout>>

\* main 243-244 and fn process_to_stdout
ProcessToStdout ==
    /\ pc = "stdout"
    /\ LET input == files[1]
           loaded == load_chat(input)
       IN  IF Len(files) # 1
           THEN Fails("MultipleFilesToStdout", <<>>) /\ stdout' = stdout
           ELSE IF cli.dry_run
           THEN /\ stderr' = Append(stderr, Msg("Would output", input))
                /\ stdout' = stdout
                /\ pc' = "done"
           ELSE IF ~loaded.ok
           THEN Fails(loaded.error, input) /\ stdout' = stdout
           ELSE /\ stdout' = stdout \o render_chat(loaded.chat, make_render_options(cli))
                /\ stderr' = stderr
                /\ pc' = "done"
    /\ UNCHANGED <<libVars, cli, files, processed, output, disk, dirs>>

CreatesOutputDir_Always == TRUE

\* if !cli.dry_run   (main.rs 247)
CreatesOutputDir == ~cli.dry_run

\* main 247-249: the output directory is created unless the run is dry.
CreateOutputDir ==
    /\ pc = "directory"
    /\ dirs' = IF CreatesOutputDir THEN dirs \cup Ancestors(cli.output.path) ELSE dirs
    /\ pc' = "files"
    /\ UNCHANGED <<libVars, cli, files, processed, output, disk, stdout, stderr>>

\* A variant of OutPath that keeps the extension of the input.
OutPath_FileName(input, out_dir) == join(out_dir, FileName(input).v \o StrDotMd)

\* format!("{}.md", out_name) joined to the output directory   (main.rs 384-385)
OutPath(input, out_dir) == join(out_dir, file_stem(input).v \o StrDotMd)

SkipsExisting_Never(path) == FALSE

\* out_path.exists() && !cli.force   (main.rs 394, 359)
SkipsExisting(path) == exists(path) /\ ~cli.force

\* One iteration of the loop of main 250-252: fn process_file; an error ends
\* the loop and the run.
ProcessFile ==
    /\ pc = "files"
    /\ processed < Len(files)
    /\ LET input == files[processed + 1]
           out_path == OutPath(input, cli.output.path)
           loaded == load_chat(input)
           markdown == render_chat(loaded.chat, make_render_options(cli))
       IN  IF ~file_stem(input).some
           THEN Fails("InvalidFilename", input) /\ UNCHANGED <<processed, disk>>
           ELSE IF cli.dry_run
           THEN /\ stderr' = Append(stderr, Msg("Would write", out_path))
                /\ processed' = processed + 1
                /\ UNCHANGED <<pc, disk>>
           ELSE IF SkipsExisting(out_path)
           THEN /\ stderr' = Append(stderr, Msg("Skipping", out_path))
                /\ processed' = processed + 1
                /\ UNCHANGED <<pc, disk>>
           ELSE IF ~loaded.ok
           THEN Fails(loaded.error, input) /\ UNCHANGED <<processed, disk>>
           ELSE /\ disk' = (out_path :> markdown) @@ disk
                /\ stderr' = IF cli.quiet THEN stderr
                             ELSE Append(stderr, Msg("Wrote", out_path))
                /\ processed' = processed + 1
                /\ pc' = pc
    /\ UNCHANGED <<libVars, cli, files, output, dirs, stdout>>

\* The loop of main 250-252 is over: main returns Ok(()).
MainReturn ==
    /\ pc = "files"
    /\ processed = Len(files)
    /\ pc' = "done"
    /\ UNCHANGED <<libVars, cliVars>>

Separator_Always(i) == StrSeparator

\* What one iteration of the loop of process_concat puts before a document.
Separator(i) == IF i > 0 THEN StrSeparator ELSE <<>>

\* One iteration of the loop of process_concat (main.rs 335-341): the
\* separator, then the next document loaded and rendered; an error ends the
\* run.
LoadConcat ==
    /\ pc = "concat"
    /\ processed < Len(files)
    /\ LET path == files[processed + 1]
           loaded == load_chat(path)
       IN  IF ~loaded.ok
           THEN Fails(loaded.error, path) /\ UNCHANGED <<processed, output>>
           ELSE /\ output' = output \o Separator(processed)
                             \o render_chat(loaded.chat, make_render_options(cli))
                /\ processed' = processed + 1
                /\ UNCHANGED <<pc, stderr>>
    /\ UNCHANGED <<libVars, cli, files, disk, dirs, stdout>>

\* process_concat 343-379: every input is loaded; the output goes to its
\* target.
WriteConcat ==
    /\ pc = "concat"
    /\ processed = Len(files)
    /\ LET path == cli.output.path
       IN  IF cli.output.kind = "Stdout"
           THEN IF cli.dry_run
                THEN /\ stderr' = Append(stderr, Msg("Would output", <<>>))
                     /\ UNCHANGED <<stdout, disk, dirs>>
                ELSE /\ stdout' = stdout \o output
                     /\ UNCHANGED <<stderr, disk, dirs>>
           ELSE IF cli.dry_run
           THEN /\ stderr' = Append(stderr, Msg("Would write", path))
                /\ UNCHANGED <<stdout, disk, dirs>>
           ELSE IF SkipsExisting(path)
           THEN /\ stderr' = Append(stderr, Msg("Skipping", path))
                /\ UNCHANGED <<stdout, disk, dirs>>
           ELSE /\ dirs' = IF parent(path).some /\ parent(path).v # <<>>
                           THEN dirs \cup Ancestors(parent(path).v) ELSE dirs
                /\ disk' = (path :> output) @@ disk
                /\ stderr' = IF cli.quiet THEN stderr ELSE Append(stderr, Msg("Wrote", path))
                /\ stdout' = stdout
    /\ pc' = "done"
    /\ UNCHANGED <<libVars, cli, files, processed, output>>

NextCli ==
    \/ CollectInputs \/ ProcessToStdout \/ CreateOutputDir \/ ProcessFile \/ MainReturn
    \/ LoadConcat \/ WriteConcat

SpecCli == InitCli /\ [][NextCli]_vars


(***************************************************************************)
(* Properties of collect_input_files.                                      *)
(***************************************************************************)
\* The elements of a sequence.
Elements(s) == { s[i] : i \in 1..Len(s) }

\* The place where x first occurs in s.
FirstIndex(s, x) == CHOOSE i \in 1..Len(s) : s[i] = x /\ \A k \in 1..(i - 1) : s[k] # x

\* A sequence with no element twice in which every element of s stands at
\* the place of its first occurrence in s.
IsFirstOccurrences(fs, s) ==
    /\ Elements(fs) = Elements(s)
    /\ \A i, j \in 1..Len(fs) :
         i < j => (fs[i] # fs[j] /\ FirstIndex(s, fs[i]) < FirstIndex(s, fs[j]))

IsPrefix(p, q) == Len(p) <= Len(q) /\ SubSeq(q, 1, Len(p)) = p

\* The order in which a recursive walk sorted by file name visits two paths:
\* a directory before what is in it, then by the first name that differs.
RECURSIVE VisitedBefore(_, _)
VisitedBefore(p, q) ==
    IF q = <<>> THEN FALSE
    ELSE IF p = <<>> THEN TRUE
    ELSE IF Head(p) # Head(q) THEN NameLess(Head(p), Head(q))
    ELSE VisitedBefore(Tail(p), Tail(q))

\* A file name that ends in ".json" after at least one other character.
HasJsonExtension(path) ==
    LET name == path[Len(path)]
    IN  Len(name) > 5 /\ SubSeq(name, Len(name) - 4, Len(name)) = <<".">> \o StrJson

\* The entries under a directory input, itself included, that are kept.
KeptUnder(dir) == { e.path : e \in {x \in Tree : IsPrefix(dir, x.path) /\ HasJsonExtension(x.path)} }

\* A set of paths in the order they are visited in.
RECURSIVE InVisitOrder(_)
InVisitOrder(paths) ==
    IF paths = {} THEN <<>>
    ELSE LET first == CHOOSE p \in paths : \A q \in paths \ {p} : VisitedBefore(p, q)
         IN  <<first>> \o InVisitOrder(paths \ {first})

\* What one input brings: itself when it is no directory, the kept entries
\* under it when it is one.
FoundBy(input) == IF is_dir(input) THEN InVisitOrder(KeptUnder(input)) ELSE <<input>>

\* An input is a directory with something under it that cannot be listed.
FailsTraversal(input) ==
    is_dir(input) /\ \E e \in Tree : IsPrefix(input, e.path) /\ e.kind = "denied"

\* C24: collect_input_files returns a list without duplicates in which each
\* path stands at the place of its first occurrence across the inputs in
\* argument order; a directory brings the entries under it in file-name
\* sorted recursive order, those with the extension json only; a path given
\* as a file is kept whatever its extension; a traversal error fails the
\* whole collection.
C24_InputDiscovery ==
    (pc # "main" /\ cli.input # <<>>) =>
        LET inputs == cli.input
            failed == \E i \in 1..Len(inputs) : FailsTraversal(inputs[i])
        IN  /\ failed => (pc = "failed" /\ files = <<>>)
            /\ ~failed =>
                 IsFirstOccurrences(files, Concat([i \in 1..Len(inputs) |-> FoundBy(inputs[i])]))

\* C24 witness: a subdirectory, then the directory it is in: the export of
\* the subdirectory comes first and only once, then the other entries with
\* the extension json by name; the text file and the hidden file are left
\* out.
C24_Witness ==
    /\ pc # "main"
    /\ cli.input = << <<N_in, N_sub>>, <<N_in>> >>
    /\ files = << <<N_in, N_sub, N_aJson>>, <<N_in, N_aJson>>, <<N_in, N_cJson>> >>


(***************************************************************************)
(* Properties of a run of the command.                                     *)
(***************************************************************************)
\* The run writes one file per input into a directory, and is not dry.
DirectoryRun == cli.output.kind = "Directory" /\ ~cli.concat /\ ~cli.dry_run

\* The run is over, with or without an error.
Ended == pc \in {"done", "failed"}

\* The input can be read and decoded.
Loads(input) == load_chat(input).ok

\* The file an input is written to in directory mode.
TargetOf(input) == join(cli.output.path, file_stem(input).v \o StrDotMd)

\* Standard error names the path in a line of one of the kinds.
Reported(kinds, path) == \E i \in 1..Len(stderr) : stderr[i].kind \in kinds /\ stderr[i].path = path

\* C21: in directory mode a read or decode failure of one document is
\* reported and does not abort the batch: when the run is over every input
\* that can be read and decoded has its output file, and every input that
\* cannot has its failure reported, unless its output existed and was skipped.
C21_BatchIsolation ==
    (DirectoryRun /\ Ended) =>
        \A i \in 1..Len(files) :
            /\ Loads(files[i]) => TargetOf(files[i]) \in DOMAIN disk
            /\ ~Loads(files[i]) =>
                   \/ Reported({"ReadFile", "ParseFile"}, files[i])
                   \/ Reported({"Skipping"}, TargetOf(files[i]))


\* The Markdown of an input that can be read and decoded.
RenderingOf(input) == render_chat(parse_chat(EntryAt(input).content), cli.render)

\* The step is one in which a write to the path is attempted: the next input
\* of a directory run when there is one, the end of a concat run to a file.
AttemptsWrite(path) ==
    /\ ~cli.dry_run
    /\ \/ /\ pc = "files" /\ processed < Len(files)
          /\ path = TargetOf(files[processed + 1])
       \/ /\ pc = "concat" /\ processed = Len(files)
          /\ cli.output.kind = "File" /\ path = cli.output.path

\* C22: without --force a file that exists is never overwritten or modified:
\* the write is skipped and the run goes on, in directory mode and in concat
\* mode; with --force the file is overwritten with what was just rendered.
C22_SkipOrForce ==
    [][ /\ ~cli.force =>
             /\ \A p \in DOMAIN disk : p \in DOMAIN disk' /\ disk'[p] = disk[p]
             /\ \A p \in DOMAIN disk :
                    AttemptsWrite(p) =>
                        /\ pc' = IF pc = "files" THEN "files" ELSE "done"
                        /\ processed' = IF pc = "files" THEN processed + 1 ELSE processed
                        /\ stderr' = Append(stderr, Msg("Skipping", p))
        /\ cli.force =>
             \A p \in DOMAIN disk :
                 (AttemptsWrite(p) /\ pc' # "failed") =>
                     /\ p \in DOMAIN disk'
                     /\ disk'[p] = IF pc = "files" THEN RenderingOf(files[processed + 1])
                                   ELSE output
      ]_vars

\* C22 witness: a run without --force is over; the file that was there has
\* its old content and was reported as skipped.
C22_Witness ==
    /\ pc = "done"
    /\ ~cli.force /\ ~cli.dry_run
    /\ \E p \in DOMAIN disk : disk[p] = S_old /\ Reported({"Skipping"}, p)


\* The lines a dry run reports for what it would do.
Intentions == {"Would write", "Would output"}

\* The errors main can end with.
Errors ==
    {"NoInputFiles", "ListInputs", "MultipleFilesToStdout", "InvalidFilename",
     "ReadFile", "ParseFile"}

\* C23: with --dry-run, whatever the output target and the other flags, no
\* step writes or overwrites a file, creates a directory or prints to
\* standard output; what is reported is what the run would do (one line per
\* input in directory mode, one line otherwise) or the error it ends with.
C23_DryRun ==
    [][ cli.dry_run =>
          /\ disk' = disk
          /\ dirs' = dirs
          /\ stdout' = stdout
          /\ \A i \in 1..Len(stderr') : stderr'[i].kind \in Intentions \cup Errors
          /\ (pc' = "done" /\ cli.output.kind = "Directory") =>
                 stderr' = [i \in 1..Len(files) |-> Msg("Would write", TargetOf(files[i]))]
          /\ (pc' = "done" /\ cli.output.kind # "Directory") =>
                 (Len(stderr') = 1 /\ stderr'[1].kind \in Intentions)
      ]_vars

\* C23 witness: a dry run with --force over two inputs is over: the file
\* that was in the output directory has its old content, nothing else is
\* there, and two lines say what would be written.
C23_Witness ==
    /\ pc = "done"
    /\ cli.dry_run /\ cli.force
    /\ cli.output.kind = "Directory"
    /\ Len(files) = 2
    /\ DOMAIN disk = {join(P_out, N_aMd)}
    /\ disk[join(P_out, N_aMd)] = S_old
    /\ stdout = NoText
    /\ Len(stderr) = 2


\* The first of the collected inputs that cannot be read or decoded.
FirstFailing == files[CHOOSE i \in 1..Len(files) : ~Loads(files[i]) /\ \A k \in 1..(i - 1) : Loads(files[k])]

SomeInputFails == \E i \in 1..Len(files) : ~Loads(files[i])

\* A line of three dashes.
RuleLine == <<"-", "-", "-">>

\* The rendered inputs in input order, a rule line with a blank line before
\* and after it between each two of them.
Concatenated ==
    Join([i \in 1..Len(files) |-> RenderingOf(files[i])], <<NL>> \o RuleLine \o <<NL, NL>>)

\* In a text, every rule line stands between two blank lines and neither
\* first nor last, and there are n of them.
HasRules(txt, n) ==
    LET ls == SplitOn(txt, NL)
        rules == {i \in 1..Len(ls) : ls[i] = RuleLine}
    IN  /\ Cardinality(rules) = n
        /\ \A i \in rules : i > 2 /\ i < Len(ls) - 1 /\ ls[i - 1] = <<>> /\ ls[i + 1] = <<>>

\* C27: in concat mode every input is read and decoded before the output
\* target is touched: if one fails the run ends with that error, no file is
\* created or modified and nothing is printed; when all succeed what is
\* written or printed is the rendered documents in input order with exactly
\* one rule line, a blank line before and after it, between each two of them
\* and none before the first or after the last.
C27_ConcatAllOrNothing ==
    [][ (cli.concat /\ pc # "main") =>
          /\ (SomeInputFails \/ (pc = "concat" /\ processed < Len(files))) =>
                 (disk' = disk /\ dirs' = dirs /\ stdout' = stdout)
          /\ (SomeInputFails /\ pc' \in {"done", "failed"}) =>
                 /\ pc' = "failed"
                 /\ stderr' = <<Msg(load_chat(FirstFailing).error, FirstFailing)>>
          /\ (~SomeInputFails /\ pc' = "done") =>
                 /\ output = Concatenated
                 /\ HasRules(output, Len(files) - 1)
                 /\ stdout' # stdout => stdout' = Concatenated
                 /\ disk' # disk => disk' = (cli.output.path :> Concatenated) @@ disk
                 /\ (stdout' # stdout \/ disk' # disk)
                        <=> (~cli.dry_run /\ ~(cli.output.kind = "File" /\ ~cli.force
                                               /\ cli.output.path \in DOMAIN disk))
      ]_vars

\* C27 witness: two exports concatenated into a file that was not there: the
\* first, one rule line between blank lines, the second.
C27_Witness ==
    /\ pc = "done"
    /\ cli.concat /\ cli.output.kind = "File"
    /\ files = << <<N_in, N_aJson>>, <<N_in, N_sub, N_aJson>> >>
    /\ P_out \in DOMAIN disk
    /\ disk[P_out] = RenderingOf(<<N_in, N_aJson>>) \o <<NL>> \o RuleLine \o <<NL, NL>>
                     \o RenderingOf(<<N_in, N_sub, N_aJson>>)
    /\ HasRules(disk[P_out], 1)


\* The inputs up to the k-th that are written to the path in directory mode.
SharingTarget(path, k) == { i \in 1..k : TargetOf(files[i]) = path }

\* C28: in directory mode the output path depends on the file stem of the
\* input alone, so inputs with the same stem share one <stem>.md; without
\* --force the first of them is written and every later one skipped as
\* existing; with --force the file holds, once all are processed, the
\* rendering of the last; at no point does a file hold content of two inputs.
C28_StemCollisions ==
    (DirectoryRun /\ pc # "main") =>
        /\ \A i, j \in 1..Len(files) :
               TargetOf(files[i]) = TargetOf(files[j]) <=> file_stem(files[i]) = file_stem(files[j])
        /\ \A p \in DOMAIN disk :
               LET sharing == SharingTarget(p, processed)
               IN  \/ disk[p] = S_old /\ (sharing = {} \/ ~cli.force)
                   \/ /\ sharing # {}
                      /\ disk[p] = RenderingOf(files[IF cli.force THEN SetMax(sharing)
                                                     ELSE CHOOSE i \in sharing :
                                                              \A k \in sharing : i <= k])
                      /\ ~cli.force =>
                             \A i \in sharing :
                                 i > (CHOOSE f \in sharing : \A k \in sharing : f <= k)
                                     => \E m \in 1..Len(stderr) :
                                            stderr[m] = Msg("Skipping", p)

\* C28 witness, without --force: two exports named a.json from two
\* directories; a.md holds the first and the second was skipped.
C28_Witness ==
    /\ pc = "done"
    /\ DirectoryRun /\ ~cli.force
    /\ files = << <<N_in, N_aJson>>, <<N_in, N_sub, N_aJson>> >>
    /\ DOMAIN disk = {join(P_out, N_aMd)}
    /\ disk[join(P_out, N_aMd)] = RenderingOf(<<N_in, N_aJson>>)
    /\ RenderingOf(<<N_in, N_aJson>>) # RenderingOf(<<N_in, N_sub, N_aJson>>)
    /\ stderr[2] = Msg("Skipping", join(P_out, N_aMd))

=============================================================================
